---- MODULE Spec2Model ----
(***************************************************************************)
(* Alert derivation engine of CPTCOPRO: the SQLite tables charge,          *)
(* alertes_debit_eleve, coproprietaires and config_alerte, the three       *)
(* triggers on charge, and the Python functions that write these tables.   *)
(*                                                                         *)
(* Amounts are whole euros (the REAL columns of the schema); taux is kept  *)
(* in hundredths (1.33 is 133).  Calendar dates are day numbers.  A Python *)
(* None is the empty set and a supplied value v is the set {v}.            *)
(* alerte_id (surrogate key of alertes_debit_eleve), last_check of         *)
(* coproprietaires and last_update of config_alerte are written but read   *)
(* by no statement that decides an alert, and are left out.                *)
(* charge, seq and alertes are the committed tables, the ones a reader     *)
(* sees.  tx is the open transaction of a connection that has not         *)
(* committed yet: {} when there is none.                                  *)
(* suivi_alertes is the table of daily snapshots of the alert table.       *)
(* sqlite_master is the set of tables the database file holds: empty when  *)
(* there is no file yet.  A table that is missing is modelled without      *)
(* rows, and the statements that would read or write it fail.              *)
(* main is the frame of the run of main in progress: the statement it is   *)
(* at and its two lists; backup is the set of files of the BACKUP          *)
(* directory, each the copy of the tables made by one run.                 *)
(* dernier is a history variable: the last operation recorded, with what  *)
(* it was given and what it returned.                                     *)
(***************************************************************************)
EXTENDS Integers, Sequences, FiniteSets, TLC

VARIABLES charge, seq, alertes, coproprietaires, config_alerte, today, dernier,
          tx, suivi_alertes, sqlite_master, main, backup

vars == <<charge, seq, alertes, coproprietaires, config_alerte, today, dernier,
          tx, suivi_alertes, sqlite_master, main, backup>>

\* no run of main in progress
Repos == [pc |-> "repos"]

(* ------------------------------ bounds -------------------------------- *)

\* ids the AUTOINCREMENT sequence of charge may hand out
MaxId == 3
\* last value of CURRENT_DATE
MaxDay == 2
\* rows of one enregistrer_donnees_sqlite batch (after the three headers)
MaxBatch == 2
\* files the BACKUP directory may hold
MaxBackup == 2

(* ----------------------------- constants ------------------------------ *)

DEFAULT_THRESHOLD_FALLBACK == 2000

DEFAULT_ALERT_THRESHOLDS ==
    ("2p" :> [charge_moyenne |-> 1500, taux |-> 133, threshold |-> 2000]) @@
    ("3p" :> [charge_moyenne |-> 1800, taux |-> 133, threshold |-> 2400]) @@
    ("4p" :> [charge_moyenne |-> 2100, taux |-> 133, threshold |-> 2800]) @@
    ("5p" :> [charge_moyenne |-> 2400, taux |-> 133, threshold |-> 3200])

\* the rows verif_presence_db / integrite_db put in a new config_alerte
ConfigInitiale ==
    [t \in DOMAIN DEFAULT_ALERT_THRESHOLDS \cup {"default"} |->
        IF t = "default"
        THEN [charge_moyenne |-> DEFAULT_THRESHOLD_FALLBACK, taux |-> 100,
              threshold |-> DEFAULT_THRESHOLD_FALLBACK]
        ELSE [charge_moyenne |-> DEFAULT_ALERT_THRESHOLDS[t].charge_moyenne,
              taux |-> DEFAULT_ALERT_THRESHOLDS[t].taux,
              threshold |-> DEFAULT_ALERT_THRESHOLDS[t].threshold]]

\* the tables verif_presence_db and integrite_db create
Schema ==
    {"charge", "alertes_debit_eleve", "config_alerte", "coproprietaires",
     "suivi_alertes"}

(* ------------------------------ helpers ------------------------------- *)

\* SQL LOWER() / str.lower() on the strings that occur
Lower(s) ==
    CASE s = "2P" -> "2p"
      [] s = "3P" -> "3p"
      [] s = "4P" -> "4p"
      [] s = "5P" -> "5p"
      [] s = "NA" -> "na"
      [] s = "DEFAULT" -> "default"
      [] OTHER -> s

Max(S) == CHOOSE x \in S : \A y \in S : y <= x

Min(S) == CHOOSE x \in S : \A y \in S : x <= y

\* COALESCE((SELECT MAX(id) FROM charge WHERE code_proprietaire = code), 0)
MaxIdDe(ch, code) ==
    LET ids == {c.id : c \in {x \in ch : x.code_proprietaire = code}}
    IN IF ids = {} THEN 0 ELSE Max(ids)

\* SeuilJoint with ON cp.type_apt = ca.type_apt, without LOWER
SeuilJoint_SensibleCasse(cp, cfg, code) ==
    {cfg[t].threshold : t \in {u \in DOMAIN cfg :
        \E p \in cp : p.code_proprietaire = code /\ p.type_apt = u}}

\* (SELECT ca.threshold FROM config_alerte ca JOIN coproprietaires cp
\*   ON LOWER(cp.type_apt) = LOWER(ca.type_apt) WHERE cp.code_proprietaire = code)
SeuilJoint(cp, cfg, code) ==
    {cfg[t].threshold : t \in {u \in DOMAIN cfg :
        \E p \in cp : p.code_proprietaire = code /\ Lower(p.type_apt) = Lower(u)}}

\* COALESCE(joined threshold, threshold of 'default', 2000.0)
SeuilResolu(cp, cfg, code) ==
    IF SeuilJoint(cp, cfg, code) # {}
    THEN CHOOSE s \in SeuilJoint(cp, cfg, code) : TRUE
    ELSE IF "default" \in DOMAIN cfg
         THEN cfg["default"].threshold
         ELSE DEFAULT_THRESHOLD_FALLBACK

\* COALESCE((SELECT LOWER(cp.type_apt) FROM coproprietaires cp WHERE ...), 'na')
TypeAlerte(cp, code) ==
    IF \E p \in cp : p.code_proprietaire = code
    THEN Lower((CHOOSE p \in cp : p.code_proprietaire = code).type_apt)
    ELSE "na"

\* the members that hold a row of alertes_debit_eleve
Alertes(al) == {a.code_proprietaire : a \in al}

\* the row the triggers build from a charge row
AlerteDe(c, cp, day) ==
    [id_origin |-> c.id, nom_proprietaire |-> c.nom_proprietaire,
     code_proprietaire |-> c.code_proprietaire, debit |-> c.debit,
     type_alerte |-> TypeAlerte(cp, c.code_proprietaire),
     first_detection |-> day, last_detection |-> day, occurence |-> 1]

(* ------------------------------ triggers ------------------------------ *)

\* UpsertAlerte as a plain INSERT, without the unique index and its ON CONFLICT
UpsertAlerte_SansConflit(al, exc) == al \cup {exc}

\* UpsertAlerte with first_detection listed in the DO UPDATE SET clause
UpsertAlerte_PremiereEcrasee(al, exc) ==
    IF \E a \in al : a.code_proprietaire = exc.code_proprietaire
    THEN {IF a.code_proprietaire = exc.code_proprietaire
          THEN [a EXCEPT !.id_origin = exc.id_origin,
                         !.nom_proprietaire = exc.nom_proprietaire,
                         !.debit = exc.debit,
                         !.type_alerte = exc.type_alerte,
                         !.first_detection = exc.first_detection,
                         !.last_detection = exc.last_detection,
                         !.occurence = @ + 1]
          ELSE a : a \in al}
    ELSE al \cup {exc}

\* UpsertAlerte as INSERT OR REPLACE: the row in conflict is replaced whole
UpsertAlerte_Reinitialise(al, exc) ==
    {a \in al : a.code_proprietaire # exc.code_proprietaire} \cup {exc}

\* UpsertAlerte without id_origin in the DO UPDATE SET clause
UpsertAlerte_OrigineGardee(al, exc) ==
    IF \E a \in al : a.code_proprietaire = exc.code_proprietaire
    THEN {IF a.code_proprietaire = exc.code_proprietaire
          THEN [a EXCEPT !.nom_proprietaire = exc.nom_proprietaire,
                         !.debit = exc.debit,
                         !.type_alerte = exc.type_alerte,
                         !.last_detection = exc.last_detection,
                         !.occurence = @ + 1]
          ELSE a : a \in al}
    ELSE al \cup {exc}

\* INSERT INTO alertes_debit_eleve ... ON CONFLICT(code_proprietaire) DO UPDATE
UpsertAlerte(al, exc) ==
    IF \E a \in al : a.code_proprietaire = exc.code_proprietaire
    THEN {IF a.code_proprietaire = exc.code_proprietaire
          THEN [a EXCEPT !.id_origin = exc.id_origin,
                         !.nom_proprietaire = exc.nom_proprietaire,
                         !.debit = exc.debit,
                         !.type_alerte = exc.type_alerte,
                         !.last_detection = exc.last_detection,
                         !.occurence = @ + 1]
          ELSE a : a \in al}
    ELSE al \cup {exc}

\* trigger alerte_debit_eleve_insert (AFTER INSERT ON charge); nouv is NEW
alerte_debit_eleve_insert(ch, al, cp, cfg, nouv, day) ==
    IF /\ nouv.id = MaxIdDe(ch, nouv.code_proprietaire)
       /\ nouv.debit > SeuilResolu(cp, cfg, nouv.code_proprietaire)
    THEN UpsertAlerte(al, AlerteDe(nouv, cp, day))
    ELSE al

\* alerte_debit_eleve_insert_clear with < in place of <=
alerte_debit_eleve_insert_clear_Strict(ch, al, cp, cfg, nouv) ==
    IF /\ nouv.id = MaxIdDe(ch, nouv.code_proprietaire)
       /\ nouv.debit < SeuilResolu(cp, cfg, nouv.code_proprietaire)
    THEN {a \in al : a.code_proprietaire # nouv.code_proprietaire}
    ELSE al

\* trigger alerte_debit_eleve_insert_clear (AFTER INSERT ON charge); nouv is NEW
alerte_debit_eleve_insert_clear(ch, al, cp, cfg, nouv) ==
    IF /\ nouv.id = MaxIdDe(ch, nouv.code_proprietaire)
       /\ nouv.debit <= SeuilResolu(cp, cfg, nouv.code_proprietaire)
    THEN {a \in al : a.code_proprietaire # nouv.code_proprietaire}
    ELSE al

\* alerte_debit_eleve_delete without COALESCE(..., 0): MAX(id) over no row is
\* NULL, the WHEN clause is not true and the trigger body does not run
alerte_debit_eleve_delete_SansCoalesce(ch, al, cp, cfg, anc, day) ==
    IF /\ \E x \in ch : x.code_proprietaire = anc.code_proprietaire
       /\ anc.id >= MaxIdDe(ch, anc.code_proprietaire)
    THEN {a \in al : a.code_proprietaire # anc.code_proprietaire} \cup
         {AlerteDe(c, cp, day) : c \in {x \in ch :
             /\ x.code_proprietaire = anc.code_proprietaire
             /\ x.id = MaxIdDe(ch, anc.code_proprietaire)
             /\ x.debit > SeuilResolu(cp, cfg, anc.code_proprietaire)}}
    ELSE al

\* trigger alerte_debit_eleve_delete (AFTER DELETE ON charge); anc is OLD and
\* ch is the table once anc is gone
alerte_debit_eleve_delete(ch, al, cp, cfg, anc, day) ==
    IF anc.id >= MaxIdDe(ch, anc.code_proprietaire)
    THEN {a \in al : a.code_proprietaire # anc.code_proprietaire} \cup
         {AlerteDe(c, cp, day) : c \in {x \in ch :
             /\ x.code_proprietaire = anc.code_proprietaire
             /\ x.id = MaxIdDe(ch, anc.code_proprietaire)
             /\ x.debit > SeuilResolu(cp, cfg, anc.code_proprietaire)}}
    ELSE al

(* --------------------------- ledger writes ---------------------------- *)

\* one INSERT OR REPLACE INTO charge: the row holding the same
\* (code_proprietaire, date) is removed without firing the delete trigger
\* (recursive_triggers is off), the new row takes the next AUTOINCREMENT id,
\* then both insert triggers run.  db is [charge, seq, alertes].
InsertOrReplace(db, r, cp, cfg, day) ==
    LET nouv == [id |-> db.seq + 1,
                code_proprietaire |-> r.code_proprietaire,
                nom_proprietaire |-> r.nom_proprietaire,
                debit |-> r.debit, credit |-> r.credit, date |-> r.date,
                last_check |-> day]
        ch1 == {c \in db.charge :
                   ~(c.code_proprietaire = r.code_proprietaire /\ c.date = r.date)}
               \cup {nouv}
        al1 == alerte_debit_eleve_insert(ch1, db.alertes, cp, cfg, nouv, day)
        al2 == alerte_debit_eleve_insert_clear(ch1, al1, cp, cfg, nouv)
    IN [charge |-> ch1, seq |-> nouv.id, alertes |-> al2]

RECURSIVE ExecuteMany(_, _, _, _, _)
\* cur.executemany over the rows, in list order, inside one transaction
ExecuteMany(db, rows, cp, cfg, day) ==
    IF rows = <<>>
    THEN db
    ELSE ExecuteMany(InsertOrReplace(db, Head(rows), cp, cfg, day),
                     Tail(rows), cp, cfg, day)

\* SansEntetes as data[4:]
SansEntetes_QuatreEntetes(data) == SubSeq(data, 5, Len(data))

\* data[3:]
SansEntetes(data) == SubSeq(data, 4, Len(data))

enregistrer_donnees_sqlite(data) ==
    LET db == ExecuteMany([charge |-> charge, seq |-> seq, alertes |-> alertes],
                          SansEntetes(data), coproprietaires, config_alerte, today)
    IN /\ seq + Len(SansEntetes(data)) <= MaxId
       /\ charge' = db.charge
       /\ seq' = db.seq
       /\ alertes' = db.alertes
       /\ dernier' = IF SansEntetes(data) = <<>>
                     THEN dernier
                     ELSE [op |-> "enregistrer_donnees_sqlite",
                           avant |-> Alertes(alertes)]
       /\ UNCHANGED <<sqlite_master, suivi_alertes, coproprietaires,
                      config_alerte, today, tx, main, backup>>

(* ---------------- the write, statement by statement ------------------ *)

\* a tuple that executemany can bind to the five ? of the statement
Liable(r) ==
    DOMAIN r = {"code_proprietaire", "nom_proprietaire", "debit", "credit", "date"}

\* RemplacerLigne on a table without UNIQUE(code_proprietaire, date)
RemplacerLigne_SansUnique(db, r, day) ==
    [charge |-> db.charge \cup
                {[id |-> db.seq + 1, code_proprietaire |-> r.code_proprietaire,
                  nom_proprietaire |-> r.nom_proprietaire, debit |-> r.debit,
                  credit |-> r.credit, date |-> r.date, last_check |-> day]},
     seq |-> db.seq + 1, alertes |-> db.alertes]

\* INSERT OR REPLACE INTO charge, the row alone: the row in conflict goes, the
\* new one comes under the next id; no trigger has run yet
RemplacerLigne(db, r, day) ==
    [charge |-> {c \in db.charge :
                    ~(c.code_proprietaire = r.code_proprietaire /\ c.date = r.date)}
                \cup
                {[id |-> db.seq + 1, code_proprietaire |-> r.code_proprietaire,
                  nom_proprietaire |-> r.nom_proprietaire, debit |-> r.debit,
                  credit |-> r.credit, date |-> r.date, last_check |-> day]},
     seq |-> db.seq + 1, alertes |-> db.alertes]

\* the two AFTER INSERT triggers, on the row just written
DeclencherInsert(db, cp, cfg, day) ==
    LET nouv == CHOOSE c \in db.charge : c.id = db.seq
    IN [db EXCEPT !.alertes =
           alerte_debit_eleve_insert_clear(
               db.charge,
               alerte_debit_eleve_insert(db.charge, db.alertes, cp, cfg, nouv, day),
               cp, cfg, nouv)]

\* Rollback that keeps what the transaction had written so far
Rollback_Partiel(base, t) == t.db

\* conn.close() (or the end of the process) with the transaction open: nothing
\* of it reaches the tables
Rollback(base, t) == base

\* Commit that publishes the ledger rows and not the alert changes
Commit_SansAlertes(base, t) == [t.db EXCEPT !.alertes = base.alertes]

\* conn.commit()
Commit(base, t) == t.db

\* sqlite3.connect, conn.cursor: the transaction starts from the tables as
\* they are; rows are bound one after the other
Connecter(data) ==
    /\ tx = {}
    /\ seq + Len(SansEntetes(data)) <= MaxId
    /\ tx' = {[db |-> [charge |-> charge, seq |-> seq, alertes |-> alertes],
               lot |-> SansEntetes(data), reste |-> SansEntetes(data),
               attente |-> FALSE]}
    /\ UNCHANGED <<sqlite_master, suivi_alertes, charge, seq, alertes,
                   coproprietaires, config_alerte, today, dernier,
                   main, backup>>

\* executemany binds the next tuple and writes its row
EcrireLigne ==
    \E t \in tx :
        /\ ~t.attente
        /\ t.reste # <<>>
        /\ Liable(Head(t.reste))
        /\ tx' = {[t EXCEPT !.db = RemplacerLigne(t.db, Head(t.reste), today),
                            !.reste = Tail(t.reste),
                            !.attente = TRUE]}
        /\ UNCHANGED <<sqlite_master, suivi_alertes, charge, seq, alertes,
                       coproprietaires, config_alerte, today, dernier,
                       main, backup>>

\* the triggers of the row just written run
Declencher ==
    \E t \in tx :
        /\ t.attente
        /\ tx' = {[t EXCEPT !.db = DeclencherInsert(t.db, coproprietaires,
                                                     config_alerte, today),
                            !.attente = FALSE]}
        /\ UNCHANGED <<sqlite_master, suivi_alertes, charge, seq, alertes,
                       coproprietaires, config_alerte, today, dernier,
                       main, backup>>

\* every tuple is written: conn.commit(), conn.close(), return
Valider ==
    \E t \in tx :
        /\ ~t.attente
        /\ t.reste = <<>>
        /\ charge' = Commit([charge |-> charge, seq |-> seq, alertes |-> alertes], t).charge
        /\ seq' = Commit([charge |-> charge, seq |-> seq, alertes |-> alertes], t).seq
        /\ alertes' = Commit([charge |-> charge, seq |-> seq, alertes |-> alertes], t).alertes
        /\ tx' = {}
        /\ dernier' = [op |-> "enregistrer_donnees_sqlite", issue |-> "return",
                       ecrites |-> t.db.seq - seq, attente |-> FALSE]
        /\ UNCHANGED <<sqlite_master, suivi_alertes, coproprietaires,
                       config_alerte, today, main, backup>>

\* the next tuple cannot be bound: executemany raises, the except branch logs
\* and raises again, finally closes the connection
Echec ==
    \E t \in tx :
        /\ ~t.attente
        /\ t.reste # <<>>
        /\ ~Liable(Head(t.reste))
        /\ charge' = Rollback([charge |-> charge, seq |-> seq, alertes |-> alertes], t).charge
        /\ seq' = Rollback([charge |-> charge, seq |-> seq, alertes |-> alertes], t).seq
        /\ alertes' = Rollback([charge |-> charge, seq |-> seq, alertes |-> alertes], t).alertes
        /\ tx' = {}
        /\ dernier' = [op |-> "enregistrer_donnees_sqlite", issue |-> "raise",
                       ecrites |-> t.db.seq - seq, attente |-> FALSE]
        /\ UNCHANGED <<sqlite_master, suivi_alertes, coproprietaires,
                       config_alerte, today, main, backup>>

\* the process stops before conn.commit() has returned, between two rows or
\* between a row and its triggers
Panne ==
    \E t \in tx :
        /\ charge' = Rollback([charge |-> charge, seq |-> seq, alertes |-> alertes], t).charge
        /\ seq' = Rollback([charge |-> charge, seq |-> seq, alertes |-> alertes], t).seq
        /\ alertes' = Rollback([charge |-> charge, seq |-> seq, alertes |-> alertes], t).alertes
        /\ tx' = {}
        /\ dernier' = [op |-> "enregistrer_donnees_sqlite", issue |-> "panne",
                       ecrites |-> t.db.seq - seq, attente |-> t.attente]
        /\ UNCHANGED <<sqlite_master, suivi_alertes, coproprietaires,
                       config_alerte, today, main, backup>>

(* --------------------------- ledger deletes --------------------------- *)

RECURSIVE DeleteIn(_, _, _, _, _)
\* DELETE FROM charge WHERE id IN (ids): the rows go one by one in rowid
\* order and the delete trigger runs after each
DeleteIn(db, ids, cp, cfg, day) ==
    LET cible == {c \in db.charge : c.id \in ids}
    IN IF cible = {}
       THEN db
       ELSE LET anc == CHOOSE c \in cible : c.id = Min({x.id : x \in cible})
                ch1 == db.charge \ {anc}
            IN DeleteIn([charge |-> ch1, seq |-> db.seq,
                         alertes |-> alerte_debit_eleve_delete(
                                         ch1, db.alertes, cp, cfg, anc, day)],
                        ids, cp, cfg, day)

suppression_doublons(liste_ids) ==
    LET db == DeleteIn([charge |-> charge, seq |-> seq, alertes |-> alertes],
                       liste_ids, coproprietaires, config_alerte, today)
    IN /\ charge' = (IF liste_ids = {} THEN charge ELSE db.charge)
       /\ alertes' = (IF liste_ids = {} THEN alertes ELSE db.alertes)
       /\ dernier' = IF charge' = charge
                     THEN dernier
                     ELSE [op |-> "suppression_doublons",
                           avant |-> Alertes(alertes)]
       /\ UNCHANGED <<sqlite_master, suivi_alertes, seq, coproprietaires,
                      config_alerte, today, tx, main, backup>>

(* --------------------------- deduplication ---------------------------- *)

\* the plain INSERT of the schema without idx_charge_unique
\* (Data_To_BDD.enregistrer_donnees_sqlite, one row): the row gets a new id
\* whatever the table holds, and both insert triggers run.  last_check is the
\* day given; a NULL last_check is held as day 0, which is where
\* COALESCE(last_check, '0001-01-01') ranks it
InsertionSansIndex(r, last_check) ==
    LET nouv == [id |-> seq + 1,
                 code_proprietaire |-> r.code_proprietaire,
                 nom_proprietaire |-> r.nom_proprietaire,
                 debit |-> r.debit, credit |-> r.credit, date |-> r.date,
                 last_check |-> last_check]
        ch1 == charge \cup {nouv}
        al1 == alerte_debit_eleve_insert(ch1, alertes, coproprietaires,
                                         config_alerte, nouv, today)
    IN /\ seq < MaxId
       /\ seq' = nouv.id
       /\ charge' = ch1
       /\ alertes' = alerte_debit_eleve_insert_clear(ch1, al1, coproprietaires,
                                                     config_alerte, nouv)
       /\ dernier' = [op |-> "enregistrer_donnees_sqlite", avant |-> Alertes(alertes)]
       /\ UNCHANGED <<sqlite_master, suivi_alertes, coproprietaires,
                      config_alerte,
                      today, tx, main, backup>>

\* ROW_NUMBER() OVER (PARTITION BY nom_proprietaire, date ORDER BY last_check
\* ASC, id ASC): the oldest row of a group comes first
ROW_NUMBER_Croissant(ch, c) ==
    1 + Cardinality({d \in ch :
                        /\ d.nom_proprietaire = c.nom_proprietaire
                        /\ d.date = c.date
                        /\ \/ d.last_check < c.last_check
                           \/ d.last_check = c.last_check /\ d.id < c.id})

\* ROW_NUMBER() OVER (PARTITION BY nom_proprietaire, date ORDER BY
\* COALESCE(last_check, '0001-01-01') DESC, id DESC)
ROW_NUMBER(ch, c) ==
    1 + Cardinality({d \in ch :
                        /\ d.nom_proprietaire = c.nom_proprietaire
                        /\ d.date = c.date
                        /\ \/ d.last_check > c.last_check
                           \/ d.last_check = c.last_check /\ d.id > c.id})

\* analyse_doublons with rn = 2 in place of rn > 1
analyse_doublons_DeuxiemeSeul(ch) == {c.id : c \in {x \in ch : ROW_NUMBER(ch, x) = 2}}

\* analyse_doublons: SELECT id FROM ranked WHERE rn > 1
analyse_doublons(ch) == {c.id : c \in {x \in ch : ROW_NUMBER(ch, x) > 1}}

\* a call of analyse_doublons, recorded with the ids it returned
Appel_analyse_doublons ==
    /\ dernier' = [op |-> "analyse_doublons", liste_ids |-> analyse_doublons(charge)]
    /\ UNCHANGED <<sqlite_master, suivi_alertes, charge, seq, alertes,
                   coproprietaires, config_alerte, today, tx, main, backup>>

\* suppression_doublons given the list analyse_doublons has just returned,
\* recorded with that list: it returns before sqlite3.connect when the list
\* is empty, and after the commit of its DELETE otherwise
Dedoublonner ==
    /\ dernier.op = "analyse_doublons"
    /\ LET db == DeleteIn([charge |-> charge, seq |-> seq, alertes |-> alertes],
                          dernier.liste_ids, coproprietaires, config_alerte, today)
       IN /\ charge' = (IF dernier.liste_ids = {} THEN charge ELSE db.charge)
          /\ alertes' = (IF dernier.liste_ids = {} THEN alertes ELSE db.alertes)
    /\ dernier' = [op |-> "suppression_doublons", avant |-> Alertes(alertes),
                   liste_ids |-> dernier.liste_ids, issue |-> "return"]
    /\ UNCHANGED <<sqlite_master, suivi_alertes, seq, coproprietaires,
                   config_alerte, today, tx, main, backup>>

(* ----------------------------- directory ------------------------------ *)

\* Python "x or ''" on an optional string
Ou(o) == IF o = {} THEN "" ELSE CHOOSE v \in o : TRUE

\* copro.get(k1) if copro.get(k1) is not None else copro.get(k2)
Cle(copro, k1, k2) == IF copro[k1] # {} THEN copro[k1] ELSE copro[k2]

\* the tuples (nom, code, num_apt, type_apt) built from the input dicts
TuplesCopro(data_coproprietaires) ==
    [i \in 1..Len(data_coproprietaires) |->
        LET copro == data_coproprietaires[i]
        IN [nom_proprietaire |-> Ou(Cle(copro, "nom_proprietaire", "proprietaire")),
            code_proprietaire |-> Ou(Cle(copro, "code_proprietaire", "code")),
            num_apt |-> Ou(copro.num_apt),
            type_apt |-> Ou(copro.type_apt)]]

\* enregistrer_coproprietaires that brings the type_alerte of the alerts in
\* line with the directory it has written
enregistrer_coproprietaires_Reevalue(data_coproprietaires) ==
    LET data == TuplesCopro(data_coproprietaires)
        conflit == \E i, j \in 1..Len(data) :
                      i # j /\ data[i].code_proprietaire = data[j].code_proprietaire
    IN /\ coproprietaires' =
            (IF data = <<>> \/ conflit
             THEN coproprietaires
             ELSE {data[i] : i \in 1..Len(data)})
       /\ alertes' = {[a EXCEPT !.type_alerte =
                                 TypeAlerte(coproprietaires', a.code_proprietaire)] :
                      a \in alertes}
       /\ UNCHANGED <<sqlite_master, suivi_alertes, charge, seq, config_alerte,
                      today, dernier, tx, main, backup>>

\* DELETE FROM coproprietaires, then executemany INSERT; a second row with a
\* code_proprietaire already inserted violates the PRIMARY KEY, the except
\* branch rolls back and the table is as before
enregistrer_coproprietaires(data_coproprietaires) ==
    LET data == TuplesCopro(data_coproprietaires)
        conflit == \E i, j \in 1..Len(data) :
                      i # j /\ data[i].code_proprietaire = data[j].code_proprietaire
    IN /\ coproprietaires' =
            (IF data = <<>> \/ conflit
             THEN coproprietaires
             ELSE {[nom_proprietaire |-> data[i].nom_proprietaire,
                    code_proprietaire |-> data[i].code_proprietaire,
                    num_apt |-> data[i].num_apt,
                    type_apt |-> data[i].type_apt] : i \in 1..Len(data)})
       /\ UNCHANGED <<sqlite_master, suivi_alertes, charge, seq, alertes,
                      config_alerte, today, dernier, tx, main, backup>>

(* ------------------------- threshold config --------------------------- *)

(* ------------- the directory write, statement by statement ------------ *)

\* copro.get(...) works on a dict; a tuple (held here under the single field
\* tuple) has no get and the loop that builds the tuples raises AttributeError
EstDict(copro) == "tuple" \notin DOMAIN copro

\* the committed directory once DELETE FROM coproprietaires has run in
\* autocommit mode
ApresDelete_AutoCommit(base) == {}

\* the committed directory once DELETE FROM coproprietaires has run: the
\* statement opens the implicit transaction, a reader sees the rows until the
\* commit
ApresDelete(base) == base

\* the loop over data_coproprietaires, the early return on an empty list and
\* sqlite3.connect
OuvrirAnnuaire(data_coproprietaires) ==
    /\ tx = {}
    /\ IF \E i \in 1..Len(data_coproprietaires) : ~EstDict(data_coproprietaires[i])
       THEN /\ dernier' = [op |-> "enregistrer_coproprietaires",
                           entree |-> data_coproprietaires, issue |-> "raise",
                           ecrites |-> 0, efface |-> FALSE]
            /\ UNCHANGED tx
       ELSE IF TuplesCopro(data_coproprietaires) = <<>>
            THEN /\ dernier' = [op |-> "enregistrer_coproprietaires",
                                entree |-> data_coproprietaires,
                                issue |-> "return", ecrites |-> 0, efface |-> FALSE]
                 /\ UNCHANGED tx
            ELSE /\ tx' = {[cp |-> coproprietaires, efface |-> FALSE, ecrites |-> 0,
                            entree |-> data_coproprietaires,
                            reste |-> TuplesCopro(data_coproprietaires)]}
                 /\ dernier' = [op |-> "connect"]
    /\ UNCHANGED <<sqlite_master, suivi_alertes, charge, seq, alertes,
                   coproprietaires, config_alerte, today, main, backup>>

\* DELETE FROM coproprietaires
EffacerAnnuaire ==
    \E t \in tx :
        /\ "entree" \in DOMAIN t
        /\ ~t.efface
        /\ tx' = {[t EXCEPT !.cp = {}, !.efface = TRUE]}
        /\ coproprietaires' = ApresDelete(coproprietaires)
        /\ UNCHANGED <<sqlite_master, suivi_alertes, charge, seq, alertes,
                       config_alerte, today, dernier, main, backup>>

\* one row of the executemany INSERT; a code_proprietaire the table holds
\* already violates the PRIMARY KEY: rollback, raise
InsererAnnuaire ==
    \E t \in tx :
        /\ "entree" \in DOMAIN t
        /\ t.efface
        /\ t.reste # <<>>
        /\ IF \E p \in t.cp : p.code_proprietaire = Head(t.reste).code_proprietaire
           THEN /\ tx' = {}
                /\ coproprietaires' = Rollback(coproprietaires, [db |-> t.cp])
                /\ dernier' = [op |-> "enregistrer_coproprietaires",
                               entree |-> t.entree, issue |-> "raise",
                               ecrites |-> t.ecrites, efface |-> TRUE]
           ELSE /\ tx' = {[t EXCEPT !.cp = t.cp \cup {Head(t.reste)},
                                    !.ecrites = t.ecrites + 1,
                                    !.reste = Tail(t.reste)]}
                /\ UNCHANGED <<coproprietaires, dernier, main, backup>>
        /\ UNCHANGED <<sqlite_master, suivi_alertes, charge, seq, alertes,
                       config_alerte, today, main, backup>>

\* conn.commit() and the return
ValiderAnnuaire ==
    \E t \in tx :
        /\ "entree" \in DOMAIN t
        /\ t.efface
        /\ t.reste = <<>>
        /\ tx' = {}
        /\ coproprietaires' = Commit(coproprietaires, [db |-> t.cp])
        /\ dernier' = [op |-> "enregistrer_coproprietaires", entree |-> t.entree,
                       issue |-> "return", ecrites |-> t.ecrites, efface |-> TRUE]
        /\ UNCHANGED <<sqlite_master, suivi_alertes, charge, seq, alertes,
                       config_alerte, today, main, backup>>

\* the process stops before the commit: the connection is gone and SQLite
\* rolls the open transaction back
PanneAnnuaire ==
    \E t \in tx :
        /\ "entree" \in DOMAIN t
        /\ tx' = {}
        /\ coproprietaires' = Rollback(coproprietaires, [db |-> t.cp])
        /\ dernier' = [op |-> "enregistrer_coproprietaires", entree |-> t.entree,
                       issue |-> "panne", ecrites |-> t.ecrites, efface |-> t.efface]
        /\ UNCHANGED <<sqlite_master, suivi_alertes, charge, seq, alertes,
                       config_alerte, today, main, backup>>

\* ErreurParametre that accepts zero whatever allow_zero says
ErreurParametre_ZeroAdmis(valeur, allow_zero) ==
    /\ valeur # {}
    /\ \E v \in valeur : v < 0

\* _valider_parametre_numerique: TRUE when an error message is returned
ErreurParametre(valeur, allow_zero) ==
    /\ valeur # {}
    /\ \E v \in valeur : IF allow_zero THEN v < 0 ELSE v <= 0

\* LigneConfig that falls back on the 'default' row, as get_threshold_for_type
LigneConfig_ParDefaut(cfg, type_apt) ==
    IF Lower(type_apt) \in DOMAIN cfg
    THEN {cfg[Lower(type_apt)]}
    ELSE IF "default" \in DOMAIN cfg THEN {cfg["default"]} ELSE {}

\* SELECT charge_moyenne, taux, threshold FROM config_alerte WHERE type_apt =
\* type_apt.lower(), fetchone: the row, or nothing
LigneConfig(cfg, type_apt) ==
    IF Lower(type_apt) \in DOMAIN cfg THEN {cfg[Lower(type_apt)]} ELSE {}

\* NouvelleConfig that tests "if threshold" where the code tests
\* "if threshold is not None": a threshold of 0 counts as not supplied
NouvelleConfig_SeuilVrai(cfg, type_apt, charge_moyenne, taux, threshold) ==
    IF \/ ErreurParametre(charge_moyenne, FALSE)
       \/ ErreurParametre(taux, FALSE)
       \/ ErreurParametre(threshold, TRUE)
       \/ LigneConfig(cfg, type_apt) = {}
    THEN {}
    ELSE LET row == CHOOSE l \in LigneConfig(cfg, type_apt) : TRUE
             new_charge == IF charge_moyenne # {}
                           THEN CHOOSE v \in charge_moyenne : TRUE
                           ELSE row.charge_moyenne
             new_taux == IF taux # {} THEN CHOOSE v \in taux : TRUE ELSE row.taux
         IN IF threshold # {} /\ threshold # {0}
            THEN {[charge_moyenne |-> new_charge, taux |-> new_taux,
                   threshold |-> CHOOSE v \in threshold : TRUE]}
            ELSE IF charge_moyenne # {} \/ taux # {}
                 THEN {[charge_moyenne |-> new_charge, taux |-> new_taux,
                        threshold |-> (new_charge * new_taux) \div 100]}
                 ELSE {[charge_moyenne |-> new_charge, taux |-> new_taux,
                        threshold |-> row.threshold]}

\* NouvelleConfig that recomputes from the stored charge_moyenne and taux, not
\* from the supplied ones
NouvelleConfig_ValeursStockees(cfg, type_apt, charge_moyenne, taux, threshold) ==
    IF \/ ErreurParametre(charge_moyenne, FALSE)
       \/ ErreurParametre(taux, FALSE)
       \/ ErreurParametre(threshold, TRUE)
       \/ LigneConfig(cfg, type_apt) = {}
    THEN {}
    ELSE LET row == CHOOSE l \in LigneConfig(cfg, type_apt) : TRUE
             new_charge == IF charge_moyenne # {}
                           THEN CHOOSE v \in charge_moyenne : TRUE
                           ELSE row.charge_moyenne
             new_taux == IF taux # {} THEN CHOOSE v \in taux : TRUE ELSE row.taux
         IN IF threshold # {}
            THEN {[charge_moyenne |-> new_charge, taux |-> new_taux,
                   threshold |-> CHOOSE v \in threshold : TRUE]}
            ELSE IF charge_moyenne # {} \/ taux # {}
                 THEN {[charge_moyenne |-> new_charge, taux |-> new_taux,
                        threshold |-> (row.charge_moyenne * row.taux) \div 100]}
                 ELSE {[charge_moyenne |-> new_charge, taux |-> new_taux,
                        threshold |-> row.threshold]}

\* NouvelleConfig that recomputes the threshold from the stored charge_moyenne
\* and taux when no field is supplied, where the code keeps current_threshold
NouvelleConfig_ToujoursRecalcule(cfg, type_apt, charge_moyenne, taux, threshold) ==
    IF \/ ErreurParametre(charge_moyenne, FALSE)
       \/ ErreurParametre(taux, FALSE)
       \/ ErreurParametre(threshold, TRUE)
       \/ LigneConfig(cfg, type_apt) = {}
    THEN {}
    ELSE LET row == CHOOSE l \in LigneConfig(cfg, type_apt) : TRUE
             new_charge == IF charge_moyenne # {}
                           THEN CHOOSE v \in charge_moyenne : TRUE
                           ELSE row.charge_moyenne
             new_taux == IF taux # {} THEN CHOOSE v \in taux : TRUE ELSE row.taux
         IN IF threshold # {}
            THEN {[charge_moyenne |-> new_charge, taux |-> new_taux,
                   threshold |-> CHOOSE v \in threshold : TRUE]}
            ELSE IF new_charge <= 0 \/ new_taux <= 0
                 THEN {}
                 ELSE {[charge_moyenne |-> new_charge, taux |-> new_taux,
                        threshold |-> (new_charge * new_taux) \div 100]}

\* the row update_config_alerte writes for an existing type, or {} when it
\* returns False before the UPDATE
NouvelleConfig(cfg, type_apt, charge_moyenne, taux, threshold) ==
    IF \/ ErreurParametre(charge_moyenne, FALSE)
       \/ ErreurParametre(taux, FALSE)
       \/ ErreurParametre(threshold, TRUE)
       \/ LigneConfig(cfg, type_apt) = {}
    THEN {}
    ELSE LET row == CHOOSE l \in LigneConfig(cfg, type_apt) : TRUE
             new_charge == IF charge_moyenne # {}
                           THEN CHOOSE v \in charge_moyenne : TRUE
                           ELSE row.charge_moyenne
             new_taux == IF taux # {} THEN CHOOSE v \in taux : TRUE ELSE row.taux
         IN IF threshold # {}
            THEN {[charge_moyenne |-> new_charge, taux |-> new_taux,
                   threshold |-> CHOOSE v \in threshold : TRUE]}
            ELSE IF charge_moyenne # {} \/ taux # {}
                 THEN IF new_charge <= 0 \/ new_taux <= 0
                      THEN {}
                      ELSE {[charge_moyenne |-> new_charge, taux |-> new_taux,
                             threshold |-> (new_charge * new_taux) \div 100]}
                 ELSE {[charge_moyenne |-> new_charge, taux |-> new_taux,
                        threshold |-> row.threshold]}

update_config_alerte(type_apt, charge_moyenne, taux, threshold) ==
    LET new == NouvelleConfig(config_alerte, type_apt, charge_moyenne, taux,
                              threshold)
    IN /\ config_alerte' =
            (IF new = {}
             THEN config_alerte
             ELSE [config_alerte EXCEPT ![Lower(type_apt)] = CHOOSE n \in new : TRUE])
       /\ UNCHANGED <<sqlite_master, suivi_alertes, charge, seq, alertes,
                      coproprietaires, today, dernier, tx, main, backup>>

\* UPDATE config_alerte SET ... WHERE type_apt = type_apt.lower()
UpdateConfig(cfg, type_apt, new) ==
    [t \in DOMAIN cfg |-> IF t = Lower(type_apt) THEN new ELSE cfg[t]]

\* a call of update_config_alerte, recorded with its arguments and what it
\* returned
Appel_update_config_alerte(type_apt, charge_moyenne, taux, threshold) ==
    LET new == NouvelleConfig(config_alerte, type_apt, charge_moyenne, taux,
                              threshold)
    IN /\ config_alerte' =
            (IF new = {}
             THEN config_alerte
             ELSE UpdateConfig(config_alerte, type_apt, CHOOSE n \in new : TRUE))
       /\ dernier' = [op |-> "update_config_alerte", type_apt |-> type_apt,
                      charge_moyenne |-> charge_moyenne, taux |-> taux,
                      threshold |-> threshold, retour |-> new # {}]
       /\ UNCHANGED <<sqlite_master, suivi_alertes, charge, seq, alertes,
                   coproprietaires, today, tx, main, backup>>

\* get_threshold_for_type without the 'default' row
get_threshold_for_type_SansDefault(cfg, type_apt) ==
    LET lignes == {t \in DOMAIN cfg : Lower(t) = Lower(type_apt)}
    IN IF lignes # {}
       THEN cfg[CHOOSE t \in lignes : TRUE].threshold
       ELSE DEFAULT_THRESHOLD_FALLBACK

\* get_threshold_for_type: WHERE LOWER(type_apt) = LOWER(?), then the
\* 'default' row, then the constant
get_threshold_for_type(cfg, type_apt) ==
    LET lignes == {t \in DOMAIN cfg : Lower(t) = Lower(type_apt)}
    IN IF lignes # {}
       THEN cfg[CHOOSE t \in lignes : TRUE].threshold
       ELSE IF "default" \in DOMAIN cfg
            THEN cfg["default"].threshold
            ELSE DEFAULT_THRESHOLD_FALLBACK

\* a call of get_threshold_for_type, recorded with what it returned
Appel_get_threshold_for_type(type_apt) ==
    /\ dernier' = [op |-> "get_threshold_for_type", type_apt |-> type_apt,
                   retour |-> get_threshold_for_type(config_alerte, type_apt)]
    /\ UNCHANGED <<sqlite_master, suivi_alertes, charge, seq, alertes,
                   coproprietaires, config_alerte, today, tx, main, backup>>

(* ------------------------------- clock -------------------------------- *)

\* init_config_alerte_if_missing that fills in the default rows a table lacks
\* (INSERT OR IGNORE), where the code inserts only into a table without rows
init_config_alerte_if_missing_Complete(cfg) ==
    [cfg |-> [t \in DOMAIN cfg \cup DOMAIN ConfigInitiale |->
                 IF t \in DOMAIN cfg THEN cfg[t] ELSE ConfigInitiale[t]],
     retour |-> DOMAIN ConfigInitiale \ DOMAIN cfg # {}]

\* init_config_alerte_if_missing: SELECT COUNT(*); with a row or more, False
\* and no write; with none, the four DEFAULT_ALERT_THRESHOLDS rows and the
\* 'default' row are inserted and True is returned
init_config_alerte_if_missing(cfg) ==
    IF Cardinality(DOMAIN cfg) > 0
    THEN [cfg |-> cfg, retour |-> FALSE]
    ELSE [cfg |-> ConfigInitiale, retour |-> TRUE]

\* a call of init_config_alerte_if_missing, recorded with what it returned
\* (SELECT COUNT(*) raises sqlite3.Error when the table is missing: False)
Appel_init_config_alerte_if_missing ==
    /\ config_alerte' =
          (IF "config_alerte" \in sqlite_master
           THEN init_config_alerte_if_missing(config_alerte).cfg
           ELSE config_alerte)
    /\ dernier' = [op |-> "init_config_alerte_if_missing",
                   retour |-> /\ "config_alerte" \in sqlite_master
                              /\ init_config_alerte_if_missing(config_alerte).retour]
    /\ UNCHANGED <<sqlite_master, suivi_alertes, charge, seq, alertes,
                   coproprietaires, today, tx, main, backup>>

\* ORDER BY type_apt over the type names the model uses
OrdreTypes == <<"2p", "3p", "4p", "5p", "default">>

\* the dictionaries of the rows of cfg, ORDER BY type_apt
ListeConfig(cfg) ==
    LET types == SelectSeq(OrdreTypes, LAMBDA t : t \in DOMAIN cfg)
    IN [i \in 1..Len(types) |->
           [type_apt |-> types[i], charge_moyenne |-> cfg[types[i]].charge_moyenne,
            taux |-> cfg[types[i]].taux, threshold |-> cfg[types[i]].threshold]]

\* get_config_alertes: the rows of config_alerte as a list of dictionaries,
\* and the empty list when the SELECT raises sqlite3.Error (no such table)
get_config_alertes(cfg, master) ==
    IF "config_alerte" \in master THEN ListeConfig(cfg) ELSE <<>>

\* a call of get_config_alertes, recorded with what it returned
Appel_get_config_alertes ==
    /\ dernier' = [op |-> "get_config_alertes",
                   retour |-> get_config_alertes(config_alerte, sqlite_master)]
    /\ UNCHANGED <<sqlite_master, suivi_alertes, charge, seq, alertes,
                   coproprietaires, config_alerte, today, tx, main, backup>>

(* ------------------------------- schema ------------------------------- *)

\* ConfigVerifiee that writes the default rows over the table on every run
ConfigVerifiee_Reinitialise(cfg, master) == ConfigInitiale

\* the rows of config_alerte after the schema functions have seen it: created
\* and seeded with the default rows when the table is missing, left alone when
\* it exists
ConfigVerifiee(cfg, master) ==
    IF "config_alerte" \in master THEN cfg ELSE ConfigInitiale

\* verif_presence_db: creates the file with every table, the triggers and the
\* default thresholds when os.path.exists(db_path) is false; only logs
\* otherwise
verif_presence_db ==
    /\ sqlite_master' = (IF sqlite_master = {} THEN Schema ELSE sqlite_master)
    /\ config_alerte' =
          (IF sqlite_master = {} THEN ConfigVerifiee(config_alerte, {})
           ELSE config_alerte)
    /\ dernier' = [op |-> "verif_presence_db", avant |-> sqlite_master]
    /\ UNCHANGED <<suivi_alertes, charge, seq, alertes, coproprietaires, today, tx,
                   main, backup>>

\* integrite_db: every component looked up in sqlite_master and created when
\* missing; config_alerte is seeded in the branch that creates it, only there
integrite_db ==
    /\ sqlite_master' = Schema
    /\ config_alerte' = ConfigVerifiee(config_alerte, sqlite_master)
    /\ dernier' = [op |-> "integrite_db", avant |-> sqlite_master]
    /\ UNCHANGED <<suivi_alertes, charge, seq, alertes, coproprietaires, today, tx,
                   main, backup>>

(* ------------------------------ snapshot ------------------------------ *)

\* the categories suivi_alertes has a pair of columns for
Categories == {"2p", "3p", "4p", "5p", "na"}

RECURSIVE SommeDebit(_)
\* COALESCE(SUM(debit), 0) over a set of alert rows
SommeDebit(al) ==
    IF al = {}
    THEN 0
    ELSE LET a == CHOOSE x \in al : TRUE
         IN a.debit + SommeDebit(al \ {a})

\* StatsParType without the GROUP BY: the whole table under every category
StatsParType_SansGroupe(al, c) == <<Cardinality(al), SommeDebit(al)>>

\* stats_par_type.get(c, (0, 0)): COUNT(*) and the sum of debit of the group
\* LOWER(COALESCE(type_alerte, 'na')) = c of the GROUP BY
StatsParType(al, c) ==
    LET groupe == {a \in al : Lower(a.type_alerte) = c}
    IN <<Cardinality(groupe), SommeDebit(groupe)>>

\* the row sauvegarder_nombre_alertes writes for the alert table al
LigneSuivi(al) ==
    [date_releve |-> Max({a.last_detection : a \in al}),
     nombre_alertes |-> Cardinality(al),
     total_debit |-> SommeDebit(al),
     nb |-> [c \in Categories |-> StatsParType(al, c)[1]],
     debit |-> [c \in Categories |-> StatsParType(al, c)[2]]]

\* SuiviApres without the early return: a row of zeros dated today when there
\* is no alert
SuiviApres_MemeSansAlerte(suivi, al, day) ==
    LET ligne == IF al = {}
                 THEN [date_releve |-> day, nombre_alertes |-> 0, total_debit |-> 0,
                       nb |-> [c \in Categories |-> 0],
                       debit |-> [c \in Categories |-> 0]]
                 ELSE LigneSuivi(al)
    IN {s \in suivi : s.date_releve # ligne.date_releve} \cup {ligne}

\* suivi_alertes after sauvegarder_nombre_alertes: untouched when MAX(
\* last_detection) is NULL (no alert), else INSERT OR REPLACE on date_releve
SuiviApres(suivi, al, day) ==
    IF al = {}
    THEN suivi
    ELSE {s \in suivi : s.date_releve # LigneSuivi(al).date_releve}
            \cup {LigneSuivi(al)}

\* sauvegarder_nombre_alertes, recorded with the alert table it read
sauvegarder_nombre_alertes ==
    /\ suivi_alertes' = SuiviApres(suivi_alertes, alertes, today)
    /\ dernier' = [op |-> "sauvegarder_nombre_alertes", issue |-> "return",
                   avant |-> suivi_alertes]
    /\ UNCHANGED <<sqlite_master, charge, seq, alertes, coproprietaires,
                   config_alerte, today, tx, main, backup>>

(* --------------------------- a run of main ---------------------------- *)

\* the tables of the database file, as shutil.copy2 copies them
Fichier ==
    [charge |-> charge, seq |-> seq, alertes |-> alertes,
     coproprietaires |-> coproprietaires, config_alerte |-> config_alerte,
     suivi_alertes |-> suivi_alertes]

\* the history of the run in progress, with one more call that has ended
Appel(f, issue) == [dernier EXCEPT !.appels = Append(@, [f |-> f, issue |-> issue])]

\* the BACKUP directory after backup_db: one more file, named after the time
\* of the call, when os.makedirs and shutil.copy2 went through (copie); as
\* before when one of them raised, which backup_db logs before it returns
backup_db(bk, fichier, copie) ==
    IF copie
    THEN bk \cup {[nom |-> Cardinality(bk) + 1, fichier |-> fichier]}
    ELSE bk

\* enregistrer_coproprietaires as main sees it: the directory it leaves and
\* whether it returned or raised.  copro.get raises on an element that is
\* not a dict, an empty list returns before the DELETE, a second row with a
\* code_proprietaire already inserted violates the PRIMARY KEY and the except
\* branch rolls back.
RemplacerAnnuaire(cp, data_coproprietaires) ==
    LET data == TuplesCopro(data_coproprietaires)
        conflit == \E i, j \in 1..Len(data) :
                      i # j /\ data[i].code_proprietaire = data[j].code_proprietaire
    IN IF \E i \in 1..Len(data_coproprietaires) : ~EstDict(data_coproprietaires[i])
       THEN [cp |-> cp, issue |-> "raise"]
       ELSE IF data = <<>>
       THEN [cp |-> cp, issue |-> "return"]
       ELSE IF conflit
       THEN [cp |-> cp, issue |-> "raise"]
       ELSE [cp |-> {data[i] : i \in 1..Len(data)}, issue |-> "return"]

\* the parsing has handed main its two lists: main returns when both are
\* empty, else goes on to the database
main_Extraction(data_charges, data_coproprietaires) ==
    /\ main = Repos
    /\ Cardinality(backup) < MaxBackup
    /\ seq + Len(SansEntetes(data_charges)) <= MaxId
    /\ main' = [pc |-> IF data_charges = <<>> /\ data_coproprietaires = <<>>
                       THEN "return"
                       ELSE "integrite_db",
                data_charges |-> data_charges,
                data_coproprietaires |-> data_coproprietaires]
    /\ dernier' = [op |-> "main", avant |-> Fichier, sauvegardes |-> backup,
                   appels |-> <<>>]
    /\ UNCHANGED <<charge, seq, alertes, coproprietaires, config_alerte, today,
                   tx, suivi_alertes, sqlite_master, backup>>

\* verif_repertoire_db, verif_presence_db and integrite_db
main_integrite_db ==
    /\ main.pc = "integrite_db"
    /\ sqlite_master' = Schema
    /\ config_alerte' = ConfigVerifiee(config_alerte, sqlite_master)
    /\ main' = [main EXCEPT !.pc = "backup_db"]
    /\ dernier' = Appel("integrite_db", "return")
    /\ UNCHANGED <<charge, seq, alertes, coproprietaires, today, tx,
                   suivi_alertes, backup>>

\* dtb.backup_db(DB_PATH): it returns whether or not the copy was made
main_backup_db ==
    /\ main.pc = "backup_db"
    /\ \E copie \in BOOLEAN :
          /\ backup' = backup_db(backup, Fichier, copie)
          /\ dernier' = Appel("backup_db", "return")
    /\ main' = [main EXCEPT !.pc = "enregistrer_donnees_sqlite"]
    /\ UNCHANGED <<charge, seq, alertes, coproprietaires, config_alerte, today,
                   tx, suivi_alertes, sqlite_master>>

\* dtb.enregistrer_donnees_sqlite(data_charges, DB_PATH): a tuple executemany
\* cannot bind raises before the commit, and main's except branch skips the
\* directory
main_enregistrer_donnees_sqlite ==
    /\ main.pc = "enregistrer_donnees_sqlite"
    /\ LET rows == SansEntetes(main.data_charges)
           db == ExecuteMany([charge |-> charge, seq |-> seq, alertes |-> alertes],
                             rows, coproprietaires, config_alerte, today)
       IN IF \E i \in 1..Len(rows) : ~Liable(rows[i])
          THEN /\ UNCHANGED <<charge, seq, alertes>>
               /\ main' = [main EXCEPT !.pc = "sauvegarder_nombre_alertes"]
               /\ dernier' = Appel("enregistrer_donnees_sqlite", "raise")
          ELSE /\ charge' = db.charge
               /\ seq' = db.seq
               /\ alertes' = db.alertes
               /\ main' = [main EXCEPT !.pc = "enregistrer_coproprietaires"]
               /\ dernier' = Appel("enregistrer_donnees_sqlite", "return")
    /\ UNCHANGED <<coproprietaires, config_alerte, today, tx, suivi_alertes,
                   sqlite_master, backup>>

\* dtb.enregistrer_coproprietaires(data_coproprietaires, DB_PATH), the last
\* statement of the try block
main_enregistrer_coproprietaires ==
    /\ main.pc = "enregistrer_coproprietaires"
    /\ LET r == RemplacerAnnuaire(coproprietaires, main.data_coproprietaires)
       IN /\ coproprietaires' = r.cp
          /\ dernier' = Appel("enregistrer_coproprietaires", r.issue)
    /\ main' = [main EXCEPT !.pc = "sauvegarder_nombre_alertes"]
    /\ UNCHANGED <<charge, seq, alertes, config_alerte, today, tx,
                   suivi_alertes, sqlite_master, backup>>

\* dtb.sauvegarder_nombre_alertes(DB_PATH), in a try block of its own
main_sauvegarder_nombre_alertes ==
    /\ main.pc = "sauvegarder_nombre_alertes"
    /\ suivi_alertes' = SuiviApres(suivi_alertes, alertes, today)
    /\ main' = [main EXCEPT !.pc = "return"]
    /\ dernier' = Appel("sauvegarder_nombre_alertes", "return")
    /\ UNCHANGED <<charge, seq, alertes, coproprietaires, config_alerte, today,
                   tx, sqlite_master, backup>>

\* main has returned; the next run starts from there
main_Retour ==
    /\ main.pc = "return"
    /\ main' = Repos
    /\ UNCHANGED <<charge, seq, alertes, coproprietaires, config_alerte, today,
                   dernier, tx, suivi_alertes, sqlite_master, backup>>

\* CURRENT_DATE moves on to the next day
Jour ==
    /\ today < MaxDay
    /\ today' = today + 1
    /\ UNCHANGED <<sqlite_master, suivi_alertes, charge, seq, alertes,
                   coproprietaires, config_alerte, dernier,
                   tx, main, backup>>

(* ------------------------------- inputs ------------------------------- *)

Codes == {"M1", "M2"}

Dates == {1, 2}

Debits == {2000, 2500, 3000}

NomDe(code) == IF code = "M1" THEN "Martin" ELSE "Durand"

Ligne(c, d, j) ==
    [code_proprietaire |-> c, nom_proprietaire |-> NomDe(c), debit |-> d,
     credit |-> 0, date |-> j]

\* M1 is observed on the later date at every amount and on the earlier date
\* above every threshold, M2 once above every threshold
LignesCharge ==
    {Ligne("M1", d, 2) : d \in Debits} \cup {Ligne("M1", 3000, 1), Ligne("M2", 3000, 1)}

\* the three header elements at the head of data; a header h is held as
\* [entete |-> h], which executemany could not bind
Entetes == <<[entete |-> "h1"], [entete |-> "h2"], [entete |-> "h3"]>>

Lots == UNION {[1..n -> LignesCharge] : n \in 0..MaxBatch}

Copro(c, t) ==
    [nom_proprietaire |-> {NomDe(c)}, proprietaire |-> {},
     code_proprietaire |-> {c}, code |-> {}, num_apt |-> {"1"},
     type_apt |-> t]

\* nothing; M1 alone in a 4P; both members, M1 unclassified; M1 twice
ListesCopro ==
    {<<>>, <<Copro("M1", {"4P"})>>,
     <<Copro("M1", {"NA"}), Copro("M2", {"4P"})>>,
     <<Copro("M1", {"4P"}), Copro("M1", {"NA"})>>}

\* a tuple of three values where the statement has five ?
LigneInvalide == [code_proprietaire |-> "M1", nom_proprietaire |-> "Martin", debit |-> 3000]

\* one key of M1 above and at the threshold, a second key, and the bad tuple
LignesTx ==
    {Ligne("M1", 3000, 2),
     [Ligne("M1", 2000, 2) EXCEPT !.nom_proprietaire = "Martin-Dupont", !.credit = 50],
     Ligne("M1", 3000, 1), LigneInvalide}

LotsTx == UNION {[1..n -> LignesTx] : n \in 0..MaxBatch}

\* a config_alerte that exists already is not seeded again: all five rows, the
\* 4p row gone, only the 3p row left
ConfigsInitiales ==
    {[t \in D |-> ConfigInitiale[t]] :
        D \in {DOMAIN ConfigInitiale, DOMAIN ConfigInitiale \ {"4p"}, {"3p"}}}

\* an existing type in capitals, the default row, a type without row
TypesMaj == {"3P", "default", "6p"}

\* not supplied, rejected, accepted
ChargesMaj == {{}, {0}, {2000}}

TauxMaj == {{}, {-150}, {150}}

SeuilsMaj == {{}, {-1}, {0}, {3000}}

TypesLus == {"3P", "4P"}

(* ---------------------------- specification --------------------------- *)

\* the ledger row and the directory of the maintenance runs
LignesEntretien == {Ligne("M1", 3000, 1)}

ListesEntretien == {<<Copro("M1", {"4P"})>>}

\* the database files a run can find: none; one that predates config_alerte;
\* one whose config_alerte was emptied; one with a single, customised row; one
\* as verif_presence_db creates it
BasesInitiales ==
    {[master |-> {}, cfg |-> <<>>],
     [master |-> Schema \ {"config_alerte"}, cfg |-> <<>>],
     [master |-> Schema, cfg |-> <<>>],
     [master |-> Schema,
      cfg |-> ("3p" :> [charge_moyenne |-> 1800, taux |-> 133, threshold |-> 3000])],
     [master |-> Schema, cfg |-> ConfigInitiale]}

\* a tuple where a dict is expected
TupleCopro == [tuple |-> <<"Durand", "M2", "2", "4P">>]

\* a dict with the old keys proprietaire and code
CoproAncien ==
    [nom_proprietaire |-> {}, proprietaire |-> {"Durand"}, code_proprietaire |-> {},
     code |-> {"M2"}, num_apt |-> {}, type_apt |-> {"3P"}]

\* nothing; M1 alone in a 4P; both members; M1 twice; M2 and then a tuple; M2
\* under the old keys
ListesAnnuaire ==
    ListesCopro \cup {<<Copro("M2", {"3P"}), TupleCopro>>, <<CoproAncien>>}

\* Martin (M1) observed twice on the later date and once on the earlier one,
\* Durand (M2) once, and M2 on the later date under the name of Martin
LignesDoublons ==
    {Ligne("M1", 3000, 2), Ligne("M1", 2500, 2), Ligne("M1", 2000, 1),
     Ligne("M2", 3000, 1),
     [Ligne("M2", 2500, 2) EXCEPT !.nom_proprietaire = "Martin"]}

\* last_check: NULL (day 0), day 1, day 2
Controles == {0, 1, 2}

\* both members above every threshold, and M1 back under them
LignesSuivi == {Ligne("M1", 3000, 1), Ligne("M2", 3000, 1), Ligne("M1", 2000, 2)}

\* both members in a 4P; M1 unclassified and M2 in a 4P; M1 without a type_apt
\* and M2 in a 4P
ListesSuivi ==
    {<<Copro("M1", {"4P"}), Copro("M2", {"4P"})>>,
     <<Copro("M1", {"NA"}), Copro("M2", {"4P"})>>,
     <<Copro("M1", {}), Copro("M2", {"4P"})>>}

\* the charges main is handed: nothing, the headers alone, one row above the
\* thresholds, one row under them, a row executemany cannot bind, two rows
\* and no header, and four rows and no header
ChargesMain ==
    {<<>>, Entetes, Entetes \o <<Ligne("M1", 3000, 1)>>,
     Entetes \o <<Ligne("M1", 2000, 2)>>, Entetes \o <<LigneInvalide>>,
     <<Ligne("M2", 3000, 1), Ligne("M2", 3000, 2)>>,
     <<Ligne("M2", 3000, 1), Ligne("M2", 3000, 2), Ligne("M1", 2000, 1),
       Ligne("M1", 3000, 2)>>}

\* the lots main is handed: nothing, M1 in a 4P, M1 twice
CoproprietairesMain ==
    {<<>>, <<Copro("M1", {"4P"})>>, <<Copro("M1", {"4P"}), Copro("M1", {"NA"})>>}

\* a database fresh from verif_presence_db / integrite_db
Init ==
    /\ charge = {}
    /\ seq = 0
    /\ alertes = {}
    /\ coproprietaires = {}
    /\ today = 1
    /\ config_alerte = ConfigInitiale
    /\ dernier = [op |-> "integrite_db", avant |-> {}]
    /\ tx = {}
    /\ suivi_alertes = {}
    /\ sqlite_master = Schema
    /\ main = Repos
    /\ backup = {}

Next ==
    \/ \E lot \in Lots : enregistrer_donnees_sqlite(Entetes \o lot)
    \/ \E ids \in SUBSET {c.id : c \in charge} : suppression_doublons(ids)
    \/ \E l \in ListesCopro : enregistrer_coproprietaires(l)
    \/ \E s \in {{2000}, {2500}} : update_config_alerte("DEFAULT", {}, {}, s)
    \/ Jour

Spec == Init /\ [][Next]_vars

\* enregistrer_donnees_sqlite alone, one statement at a time
NextTransaction ==
    \/ \E lot \in LotsTx : Connecter(Entetes \o lot)
    \/ EcrireLigne
    \/ Declencher
    \/ Valider
    \/ Echec
    \/ Panne

SpecTransaction == Init /\ [][NextTransaction]_vars

\* a database found with its config_alerte
InitConfig ==
    /\ charge = {}
    /\ seq = 0
    /\ alertes = {}
    /\ coproprietaires = {}
    /\ today = 1
    /\ config_alerte \in ConfigsInitiales
    /\ dernier = [op |-> "integrite_db", avant |-> {}]
    /\ tx = {}
    /\ suivi_alertes = {}
    /\ sqlite_master = Schema
    /\ main = Repos
    /\ backup = {}

\* the threshold configuration and the directory it is joined with
NextConfig ==
    \/ \E t \in TypesMaj : \E c \in ChargesMaj : \E x \in TauxMaj : \E s \in SeuilsMaj :
          Appel_update_config_alerte(t, c, x, s)
    \/ \E t \in TypesLus : Appel_get_threshold_for_type(t)
    \/ \E l \in ListesCopro : enregistrer_coproprietaires(l)

SpecConfig == InitConfig /\ [][NextConfig]_vars

(* ----------------------------- properties ----------------------------- *)

InitEntretien ==
    /\ charge = {}
    /\ seq = 0
    /\ alertes = {}
    /\ coproprietaires = {}
    /\ today = 1
    /\ \E b \in BasesInitiales : sqlite_master = b.master /\ config_alerte = b.cfg
    /\ dernier = [op |-> "connect"]
    /\ tx = {}
    /\ suivi_alertes = {}
    /\ main = Repos
    /\ backup = {}

\* the schema functions, the config functions and the snapshot, with the
\* writes of a run of main (which come after integrite_db)
NextEntretien ==
    \/ verif_presence_db
    \/ integrite_db
    \/ Appel_init_config_alerte_if_missing
    \/ Appel_get_config_alertes
    \/ \E s \in {{}, {2500}} : Appel_update_config_alerte("3P", {}, {}, s)
    \/ Appel_update_config_alerte("4P", {}, {}, {3500})
    \/ /\ sqlite_master = Schema
       /\ \E l \in LignesEntretien : enregistrer_donnees_sqlite(Entetes \o <<l>>)
    \/ /\ sqlite_master = Schema
       /\ \E ids \in SUBSET {c.id : c \in charge} : suppression_doublons(ids)
    \/ /\ sqlite_master = Schema
       /\ \E l \in ListesEntretien : enregistrer_coproprietaires(l)
    \/ /\ sqlite_master = Schema
       /\ sauvegarder_nombre_alertes

SpecEntretien == InitEntretien /\ [][NextEntretien]_vars

\* enregistrer_coproprietaires, statement by statement, seen from another
\* connection
NextAnnuaire ==
    \/ \E l \in ListesAnnuaire : OuvrirAnnuaire(l)
    \/ EffacerAnnuaire
    \/ InsererAnnuaire
    \/ ValiderAnnuaire
    \/ PanneAnnuaire

SpecAnnuaire == Init /\ [][NextAnnuaire]_vars

\* a ledger without the unique index, and its deduplication
NextDoublons ==
    \/ \E r \in LignesDoublons : \E lc \in Controles : InsertionSansIndex(r, lc)
    \/ Appel_analyse_doublons
    \/ Dedoublonner

SpecDoublons == Init /\ [][NextDoublons]_vars

\* the end of a run of main: the ledger and the directory are written, then
\* the snapshot is taken
NextSuivi ==
    \/ \E l \in LignesSuivi : enregistrer_donnees_sqlite(Entetes \o <<l>>)
    \/ \E l \in ListesSuivi : enregistrer_coproprietaires(l)
    \/ sauvegarder_nombre_alertes
    \/ Jour

SpecSuivi == Init /\ [][NextSuivi]_vars

\* runs of main, one after the other
NextMain ==
    \/ \E dc \in ChargesMain : \E dcp \in CoproprietairesMain :
          main_Extraction(dc, dcp)
    \/ main_integrite_db
    \/ main_backup_db
    \/ main_enregistrer_donnees_sqlite
    \/ main_enregistrer_coproprietaires
    \/ main_sauvegarder_nombre_alertes
    \/ main_Retour

SpecMain == Init /\ [][NextMain]_vars

TypeOK ==
    /\ seq \in 0..MaxId
    /\ today \in 1..MaxDay
    /\ \A c \in charge : c.id \in 1..seq

\* the ledger rows of member m
LignesDe(ch, m) == {c \in ch : c.code_proprietaire = m}

\* the alert rows of member m
AlertesDe(al, m) == {a \in al : a.code_proprietaire = m}

\* the latest observation of m: greatest date, ties broken by write order
Derniere(ch, m) ==
    CHOOSE c \in LignesDe(ch, m) :
        \A d \in LignesDe(ch, m) : d.date < c.date \/ (d.date = c.date /\ d.id <= c.id)

Seuil(m) == SeuilResolu(coproprietaires, config_alerte, m)

\* this step is one enregistrer_donnees_sqlite that writes a single row, for m
EcritUneLigne(m) ==
    /\ seq' = seq + 1
    /\ \E c \in charge' : c.id = seq' /\ c.code_proprietaire = m

\* the row written by such a step
LigneEcrite == CHOOSE c \in charge' : c.id = seq'

\* this step deletes ledger rows and writes none
Supprime == seq' = seq /\ charge' \subseteq charge /\ charge' # charge

\* C1: alertes_debit_eleve never holds two rows for one code_proprietaire.
C1_UneAlerteParMembre ==
    \A a, b \in alertes : a.code_proprietaire = b.code_proprietaire => a = b

\* both members hold an alert and one of them went through ON CONFLICT DO UPDATE
C1_Temoin ==
    /\ Alertes(alertes) = Codes
    /\ \E a \in alertes : a.occurence >= 2

\* C2: the debit of every alert is the debit of its member's latest ledger
\* row, latest by observation date (ties by write order).
C2_MontantDeLaDerniere ==
    \A a \in alertes :
        /\ LignesDe(charge, a.code_proprietaire) # {}
        /\ a.debit = Derniere(charge, a.code_proprietaire).debit

\* C3: a member holds an alert exactly when the debit of its latest ledger
\* row is strictly above the threshold now resolved for it.
C3_AlerteSsiDepassement ==
    \A m \in Codes :
        m \in Alertes(alertes) <=>
            /\ LignesDe(charge, m) # {}
            /\ Derniere(charge, m).debit > Seuil(m)

\* C4: writing a row that is the member's latest with debit above the
\* threshold creates the alert (occurence 1, first_detection = last_detection)
\* when there is none, and otherwise sets debit and type_alerte from the new
\* row, adds exactly 1 to occurence and keeps first_detection.
C4_EcritureAuDessus ==
    [][\A m \in Codes :
          (/\ EcritUneLigne(m)
           /\ LigneEcrite = Derniere(charge', m)
           /\ LigneEcrite.debit > Seuil(m))
          => /\ Cardinality(AlertesDe(alertes', m)) = 1
             /\ \A a \in AlertesDe(alertes', m) :
                  /\ a.debit = LigneEcrite.debit
                  /\ a.type_alerte = TypeAlerte(coproprietaires, m)
                  /\ a.last_detection = today
                  /\ IF AlertesDe(alertes, m) = {}
                     THEN a.occurence = 1 /\ a.first_detection = a.last_detection
                     ELSE \A b \in AlertesDe(alertes, m) :
                            /\ a.occurence = b.occurence + 1
                            /\ a.first_detection = b.first_detection]_vars

\* the last write updated an alert first detected on an earlier day
C4_Temoin ==
    /\ dernier.op = "enregistrer_donnees_sqlite"
    /\ \E a \in alertes :
         /\ a.code_proprietaire \in dernier.avant
         /\ a.id_origin = seq
         /\ \E c \in charge : c.id = seq /\ c = Derniere(charge, a.code_proprietaire)
         /\ a.occurence = 2
         /\ a.first_detection < a.last_detection

\* C5: writing a row that is the member's latest with debit at or below the
\* threshold leaves the member without alert, and leaves the whole alert table
\* as it was when the member had none.
C5_EcritureAuDessous ==
    [][\A m \in Codes :
          (/\ EcritUneLigne(m)
           /\ LigneEcrite = Derniere(charge', m)
           /\ LigneEcrite.debit <= Seuil(m))
          => /\ AlertesDe(alertes', m) = {}
             /\ (AlertesDe(alertes, m) = {} => alertes' = alertes)]_vars

\* the last write, at exactly the threshold, cleared the alert M1 held
C5_Temoin ==
    /\ dernier.op = "enregistrer_donnees_sqlite"
    /\ "M1" \in dernier.avant
    /\ AlertesDe(alertes, "M1") = {}
    /\ \E c \in charge :
         /\ c.id = seq
         /\ c = Derniere(charge, "M1")
         /\ c.debit = Seuil("M1")

\* C6: writing a row dated before the member's latest observation leaves the
\* member's alert row as it was (present or not, debit, occurence, dates).
C6_EcritureAnterieure ==
    [][\A m \in Codes :
          (/\ EcritUneLigne(m)
           /\ LignesDe(charge, m) # {}
           /\ LigneEcrite.date < Derniere(charge, m).date)
          => AlertesDe(alertes', m) = AlertesDe(alertes, m)]_vars

\* one INSERT OR REPLACE of r under the current directory, config and date
Ecrire(db, r) == InsertOrReplace(db, r, coproprietaires, config_alerte, today)

\* what C7 compares of the alerts: member, debit, occurence, first_detection
VueAlertes(al) ==
    {[code_proprietaire |-> a.code_proprietaire, debit |-> a.debit,
      occurence |-> a.occurence, first_detection |-> a.first_detection] : a \in al}

\* what C7 compares of the ledger: the observations, without id and last_check
Contenu(ch) ==
    {[code_proprietaire |-> c.code_proprietaire,
      nom_proprietaire |-> c.nom_proprietaire, debit |-> c.debit,
      credit |-> c.credit, date |-> c.date] : c \in ch}

\* C7: from every reachable state and for every row r, writing r twice gives
\* the same alerts and the same ledger contents as writing it once.
C7_Idempotence ==
    \A r \in LignesCharge :
        LET une == Ecrire([charge |-> charge, seq |-> seq, alertes |-> alertes], r)
            deux == Ecrire(une, r)
        IN /\ VueAlertes(deux.alertes) = VueAlertes(une.alertes)
           /\ Contenu(deux.charge) = Contenu(une.charge)

\* C8: deleting the member's latest row while other rows remain leaves an
\* alert exactly when the debit of the latest remaining row is above the
\* threshold, and that alert carries this row's debit and id with occurence 1.
C8_SuppressionDeLaDerniere ==
    [][\A m \in Codes :
          (/\ Supprime
           /\ LignesDe(charge, m) # {}
           /\ Derniere(charge, m) \notin charge'
           /\ LignesDe(charge', m) # {})
          => /\ AlertesDe(alertes', m) # {} <=> Derniere(charge', m).debit > Seuil(m)
             /\ \A a \in AlertesDe(alertes', m) :
                  /\ a.debit = Derniere(charge', m).debit
                  /\ a.id_origin = Derniere(charge', m).id
                  /\ a.occurence = 1]_vars

\* C9: deleting the only ledger row of a member that holds an alert leaves
\* the member without alert.
C9_SuppressionDeLaSeule ==
    [][\A m \in Codes :
          (/\ Supprime
           /\ AlertesDe(alertes, m) # {}
           /\ Cardinality(LignesDe(charge, m)) = 1
           /\ LignesDe(charge', m) = {})
          => AlertesDe(alertes', m) = {}]_vars

\* the only row ever written, which had raised an alert for M1, was deleted
C9_Temoin ==
    /\ dernier.op = "suppression_doublons"
    /\ "M1" \in dernier.avant
    /\ seq = 1
    /\ charge = {}
    /\ AlertesDe(alertes, "M1") = {}

\* C10: deleting one row that is not its member's latest leaves the whole
\* alert table as it was.
C10_SuppressionAncienne ==
    [][\A m \in Codes :
          (/\ Supprime
           /\ \E r \in LignesDe(charge, m) :
                charge' = charge \ {r} /\ r # Derniere(charge, m))
          => alertes' = alertes]_vars

\* C11 as stated: across a step that writes at most one row and leaves the
\* member alerting before and after, occurence never decreases, and it is 1
\* afterwards only for an alert the step left untouched.
C11_OccurenceMonotone ==
    [][\A m \in Codes :
          seq' <= seq + 1 =>
            \A a \in AlertesDe(alertes, m) : \A b \in AlertesDe(alertes', m) :
                /\ b.occurence >= a.occurence
                /\ (b.occurence = 1 => b = a)]_vars

\* C11: across a step that writes at most one row and leaves the member
\* alerting before and after, occurence does not decrease and is 1 only for an
\* untouched alert, unless the step is a delete whose recompute cleared and
\* re-created the alert, and then occurence is 1; an alert created for a member
\* that had none has occurence 1.
C11_OccurenceSaufRecalcul ==
    [][\A m \in Codes :
          seq' <= seq + 1 =>
            /\ \A a \in AlertesDe(alertes, m) : \A b \in AlertesDe(alertes', m) :
                  \/ /\ b.occurence >= a.occurence
                     /\ (b.occurence = 1 => b = a)
                  \/ /\ Supprime
                     /\ b.occurence = 1
                     /\ b.first_detection = today
            /\ (AlertesDe(alertes, m) = {} =>
                  \A b \in AlertesDe(alertes', m) : b.occurence = 1)]_vars

\* the last delete re-created, from a row written on an earlier day, the alert
\* that M1 held before it
C11_Temoin ==
    /\ dernier.op = "suppression_doublons"
    /\ "M1" \in dernier.avant
    /\ \E a \in AlertesDe(alertes, "M1") :
         /\ a.occurence = 1
         /\ \E c \in charge : c.id = a.id_origin /\ c.last_check < a.first_detection

\* the identity key of a ledger row
CleDe(c) == <<c.code_proprietaire, c.date>>

\* the last tuple of lot written under key k
DerniereEcriture(lot, k) == lot[Max({i \in 1..Len(lot) : CleDe(lot[i]) = k})]

\* the committed tables as one record
Tables == [charge |-> charge, seq |-> seq, alertes |-> alertes]

\* C12: when a batch has returned, the ledger holds one row per
\* (code_proprietaire, date); for every key of the batch that row carries the
\* debit, credit and nom_proprietaire of the last tuple written for the key;
\* the rows of the other keys are as before and no other row exists.
C12_DerniereEcritureGagne ==
    [][\A t \in tx :
          (tx' = {} /\ dernier'.issue = "return") =>
            LET cles == {CleDe(t.lot[i]) : i \in 1..Len(t.lot)}
            IN /\ \A c, d \in charge' : CleDe(c) = CleDe(d) => c = d
               /\ \A k \in cles : \E c \in charge' :
                    /\ CleDe(c) = k
                    /\ c.debit = DerniereEcriture(t.lot, k).debit
                    /\ c.credit = DerniereEcriture(t.lot, k).credit
                    /\ c.nom_proprietaire = DerniereEcriture(t.lot, k).nom_proprietaire
               /\ \A c \in charge' : CleDe(c) \notin cles => c \in charge
               /\ {CleDe(c) : c \in charge'} = {CleDe(c) : c \in charge} \cup cles]_vars

\* three writes of the key (M1, 2), the last two in one batch: one row is left,
\* with the values of the last tuple
C12_Temoin ==
    /\ dernier.op = "enregistrer_donnees_sqlite"
    /\ dernier.issue = "return"
    /\ dernier.ecrites = 2
    /\ seq = 3
    /\ charge = {[id |-> 3, code_proprietaire |-> "M1",
                  nom_proprietaire |-> "Martin-Dupont", debit |-> 2000,
                  credit |-> 50, date |-> 2, last_check |-> today]}

\* C13: a batch holding a tuple that cannot be written never returns; when
\* the call raises, charge, its id sequence and alertes_debit_eleve are what
\* they were before the call.
C13_ToutOuRien ==
    [][\A t \in tx :
          tx' = {} =>
            /\ (\E i \in 1..Len(t.lot) : ~Liable(t.lot[i])) => dernier'.issue # "return"
            /\ dernier'.issue = "raise" =>
                 charge' = charge /\ seq' = seq /\ alertes' = alertes]_vars

\* the call raised on the second tuple, after the first had been written inside
\* the transaction; the row and the alert M1 had before are still there
C13_Temoin ==
    /\ dernier.op = "enregistrer_donnees_sqlite"
    /\ dernier.issue = "raise"
    /\ dernier.ecrites = 1
    /\ \E c \in charge : c.id = seq /\ c.date = 2 /\ c.debit = 3000
    /\ AlertesDe(alertes, "M1") # {}

\* C14: the committed tables change only when a whole batch commits, and then
\* ledger and alerts change together to what the rows and their triggers give;
\* a stop before the commit, between a row and its triggers included, leaves
\* both as they were.
C14_Atomicite ==
    [][/\ (charge' # charge \/ seq' # seq \/ alertes' # alertes) =>
            \E t \in tx :
                /\ tx' = {}
                /\ dernier'.issue = "return"
                /\ [charge |-> charge', seq |-> seq', alertes |-> alertes'] =
                     ExecuteMany(Tables, t.lot, coproprietaires, config_alerte, today)
       /\ \A t \in tx :
            (tx' = {} /\ dernier'.issue = "panne") =>
                charge' = charge /\ seq' = seq /\ alertes' = alertes]_vars

\* the process stopped after the second row of a batch was written and before
\* its triggers ran; the tables show the state before the batch
C14_Temoin ==
    /\ dernier.op = "enregistrer_donnees_sqlite"
    /\ dernier.issue = "panne"
    /\ dernier.attente
    /\ dernier.ecrites = 2
    /\ seq = 1
    /\ \E a \in alertes : a.id_origin = 1 /\ a.occurence = 1
    /\ tx = {}
    /\ suivi_alertes = {}
    /\ sqlite_master = Schema
    /\ main = Repos
    /\ backup = {}

\* the config rows whose type_apt is type_apt up to case
LignesDeType(cfg, type_apt) == {t \in DOMAIN cfg : Lower(t) = Lower(type_apt)}

\* C15: get_threshold_for_type returns the threshold of the row whose type
\* matches up to case; without such a row, the threshold of the 'default' row;
\* without that row either, 2000.
C15_SeuilParType ==
    dernier.op = "get_threshold_for_type" =>
        LET lignes == LignesDeType(config_alerte, dernier.type_apt)
        IN /\ lignes # {} => \E t \in lignes : dernier.retour = config_alerte[t].threshold
           /\ (lignes = {} /\ "default" \in DOMAIN config_alerte) =>
                dernier.retour = config_alerte["default"].threshold
           /\ (lignes = {} /\ "default" \notin DOMAIN config_alerte) =>
                dernier.retour = 2000

\* asked for 4P with no 4p row, the call returned the threshold of the
\* 'default' row, which is no longer the constant
C15_Temoin ==
    /\ dernier.op = "get_threshold_for_type"
    /\ dernier.type_apt = "4P"
    /\ "4p" \notin DOMAIN config_alerte
    /\ "default" \in DOMAIN config_alerte
    /\ config_alerte["default"].threshold = 3000
    /\ dernier.retour = 3000

\* type_apt of the directory row of member m
TypeDe(cp, m) == (CHOOSE p \in cp : p.code_proprietaire = m).type_apt

\* C16: the threshold the triggers resolve for a member is
\* get_threshold_for_type of the member's directory type_apt, and for a member
\* absent from the directory the 'default' threshold, then 2000.
C16_SeuilDesTriggers ==
    \A m \in Codes :
        IF \E p \in coproprietaires : p.code_proprietaire = m
        THEN Seuil(m) = get_threshold_for_type(config_alerte, TypeDe(coproprietaires, m))
        ELSE Seuil(m) = IF "default" \in DOMAIN config_alerte
                        THEN config_alerte["default"].threshold
                        ELSE 2000

\* M2 is a 4P and resolves to the 4p row, M1 has no configured type and
\* resolves to the 'default' row, and the two thresholds differ
C16_Temoin ==
    /\ \E p \in coproprietaires : p.code_proprietaire = "M2" /\ p.type_apt = "4P"
    /\ \E p \in coproprietaires : p.code_proprietaire = "M1" /\ p.type_apt = "NA"
    /\ "4p" \in DOMAIN config_alerte
    /\ "default" \in DOMAIN config_alerte
    /\ config_alerte["default"].threshold = 3000
    /\ Seuil("M2") = 2800
    /\ Seuil("M1") = 3000

\* the recorded call of update_config_alerte supplied a value it must reject
Rejete(d) ==
    \/ \E v \in d.charge_moyenne : v <= 0
    \/ \E v \in d.taux : v <= 0
    \/ \E v \in d.threshold : v < 0

\* C17: a call of update_config_alerte with a supplied charge_moyenne <= 0,
\* taux <= 0 or threshold < 0 returns False and leaves config_alerte as it was.
C17_ValidationSansEcriture ==
    [][(dernier'.op = "update_config_alerte" /\ Rejete(dernier')) =>
          /\ ~dernier'.retour
          /\ config_alerte' = config_alerte]_vars

\* the last call gave charge_moyenne 0 with a valid threshold for an existing
\* type, and returned False
C17_Temoin ==
    /\ dernier.op = "update_config_alerte"
    /\ dernier.type_apt = "3P"
    /\ dernier.charge_moyenne = {0}
    /\ dernier.taux = {}
    /\ dernier.threshold = {3000}
    /\ ~dernier.retour
    /\ "3p" \in DOMAIN config_alerte

\* C18: after a call of update_config_alerte with valid arguments and an
\* explicit threshold on an existing type, the stored threshold is the given
\* value, whatever charge_moyenne and taux are.
C18_SeuilExplicite ==
    (/\ dernier.op = "update_config_alerte"
     /\ ~Rejete(dernier)
     /\ dernier.threshold # {}
     /\ Lower(dernier.type_apt) \in DOMAIN config_alerte)
    => /\ dernier.retour
       /\ \A v \in dernier.threshold :
            config_alerte[Lower(dernier.type_apt)].threshold = v

\* the last call gave charge_moyenne 2000, taux 1.5 and threshold 0: the 3p row
\* holds them as given
C18_Temoin ==
    /\ dernier.op = "update_config_alerte"
    /\ dernier.type_apt = "3P"
    /\ dernier.charge_moyenne = {2000}
    /\ dernier.taux = {150}
    /\ dernier.threshold = {0}
    /\ "3p" \in DOMAIN config_alerte
    /\ config_alerte["3p"] = [charge_moyenne |-> 2000, taux |-> 150, threshold |-> 0]

\* C19: after a call of update_config_alerte with valid charge_moyenne and/or
\* taux and no threshold on an existing type, the stored threshold is the
\* product of the effective charge_moyenne and taux (taux is in hundredths),
\* each the supplied value if supplied and the one stored before otherwise.
C19_SeuilRecalcule ==
    [][(/\ dernier'.op = "update_config_alerte"
        /\ ~Rejete(dernier')
        /\ dernier'.threshold = {}
        /\ dernier'.charge_moyenne # {} \/ dernier'.taux # {}
        /\ Lower(dernier'.type_apt) \in DOMAIN config_alerte)
       => LET k == Lower(dernier'.type_apt)
              c == IF dernier'.charge_moyenne # {}
                   THEN CHOOSE v \in dernier'.charge_moyenne : TRUE
                   ELSE config_alerte[k].charge_moyenne
              x == IF dernier'.taux # {}
                   THEN CHOOSE v \in dernier'.taux : TRUE
                   ELSE config_alerte[k].taux
          IN /\ dernier'.retour
             /\ config_alerte'[k].threshold * 100 = c * x
             /\ config_alerte'[k].charge_moyenne = c
             /\ config_alerte'[k].taux = x]_vars

\* 3p held 1800 and 1.33; the last call gave charge_moyenne 2000 alone and the
\* threshold is 2660
C19_Temoin ==
    /\ dernier.op = "update_config_alerte"
    /\ dernier.type_apt = "3P"
    /\ dernier.charge_moyenne = {2000}
    /\ dernier.taux = {}
    /\ dernier.threshold = {}
    /\ "3p" \in DOMAIN config_alerte
    /\ config_alerte["3p"] = [charge_moyenne |-> 2000, taux |-> 133, threshold |-> 2660]

\* C20: a call of update_config_alerte for a type without row returns False
\* and leaves config_alerte, its rows and their values, as it was.
C20_TypeInconnu ==
    [][(/\ dernier'.op = "update_config_alerte"
        /\ Lower(dernier'.type_apt) \notin DOMAIN config_alerte)
       => /\ ~dernier'.retour
          /\ config_alerte' = config_alerte]_vars

\* the last call, with valid values, was for 6p, which has no row
C20_Temoin ==
    /\ dernier.op = "update_config_alerte"
    /\ dernier.type_apt = "6p"
    /\ dernier.charge_moyenne = {2000}
    /\ dernier.taux = {150}
    /\ dernier.threshold = {3000}
    /\ ~dernier.retour
    /\ "6p" \notin DOMAIN config_alerte
    /\ DOMAIN config_alerte = DOMAIN ConfigInitiale

\* C21: a call of update_config_alerte for a type that has a row, with none of
\* charge_moyenne, taux and threshold supplied, returns True and leaves that
\* row's charge_moyenne, taux and threshold (and every other row) as they
\* were.
C21_SansChampNumerique ==
    [][(/\ dernier'.op = "update_config_alerte"
        /\ dernier'.charge_moyenne = {}
        /\ dernier'.taux = {}
        /\ dernier'.threshold = {}
        /\ Lower(dernier'.type_apt) \in DOMAIN config_alerte)
       => /\ dernier'.retour
          /\ config_alerte' = config_alerte]_vars

\* the last call named 3P and supplied no field, after the 3p row had been
\* given a threshold (3000) that is not its charge_moyenne times its taux
C21_Temoin ==
    /\ dernier.op = "update_config_alerte"
    /\ dernier.type_apt = "3P"
    /\ dernier.charge_moyenne = {}
    /\ dernier.taux = {}
    /\ dernier.threshold = {}
    /\ dernier.retour
    /\ "3p" \in DOMAIN config_alerte
    /\ config_alerte["3p"] = [charge_moyenne |-> 1800, taux |-> 133, threshold |-> 3000]

\* C22: a call of init_config_alerte_if_missing on a config_alerte table
\* without rows inserts the default set (2p, 3p, 4p, 5p and default, with
\* their default values) and returns True; on a table that holds a row or
\* more it returns False and changes no row.
C22_InitSiVide ==
    [][(/\ dernier' # dernier
        /\ dernier'.op = "init_config_alerte_if_missing"
        /\ "config_alerte" \in sqlite_master)
       => IF DOMAIN config_alerte = {}
          THEN /\ dernier'.retour
               /\ DOMAIN config_alerte' = {"2p", "3p", "4p", "5p", "default"}
               /\ \A t \in DOMAIN DEFAULT_ALERT_THRESHOLDS :
                     config_alerte'[t] = DEFAULT_ALERT_THRESHOLDS[t]
               /\ config_alerte'["default"].threshold = DEFAULT_THRESHOLD_FALLBACK
          ELSE /\ ~dernier'.retour
               /\ config_alerte' = config_alerte]_vars

\* the last call returned True: the table, which had no row, holds the five
\* default rows
C22_Temoin ==
    /\ dernier.op = "init_config_alerte_if_missing"
    /\ dernier.retour
    /\ DOMAIN config_alerte = {"2p", "3p", "4p", "5p", "default"}
    /\ config_alerte["3p"].threshold = 2400

\* C23: a call of get_config_alertes on a store that is empty (config_alerte
\* without rows) or unavailable (no config_alerte table) returns the
\* hard-coded default set, the four categories and 'default', and not an
\* empty list.
C23_DefautsSiVideOuAbsente ==
    [][(/\ dernier' # dernier
        /\ dernier'.op = "get_config_alertes"
        /\ (DOMAIN config_alerte = {} \/ "config_alerte" \notin sqlite_master))
       => /\ dernier'.retour # <<>>
          /\ dernier'.retour = ListeConfig(ConfigInitiale)]_vars

\* C24: the rows of config_alerte are changed by update_config_alerte only.
\* Every other step (integrite_db or verif_presence_db run again on an
\* existing database, a ledger write, a directory write, a ledger delete, a
\* snapshot, a read, init_config_alerte_if_missing) leaves every row the
\* table holds in place with its values; seeding adds rows only where the
\* table had none.
C24_ConfigIntacte ==
    [][~(dernier' # dernier /\ dernier'.op = "update_config_alerte")
       => \A t \in DOMAIN config_alerte :
             /\ t \in DOMAIN config_alerte'
             /\ config_alerte'[t] = config_alerte[t]]_vars

\* integrite_db has just run on a database that had all its tables, the ledger
\* and the directory have been written, and config_alerte is still the single
\* row 3p with the threshold an update gave it
C24_Temoin ==
    /\ dernier.op = "integrite_db"
    /\ dernier.avant = Schema
    /\ DOMAIN config_alerte = {"3p"}
    /\ config_alerte["3p"].threshold = 2500
    /\ charge # {}
    /\ coproprietaires # {}
    /\ suivi_alertes # {}

\* the rows of coproprietaires a list of dicts stands for
LignesDonnees(data_coproprietaires) ==
    {TuplesCopro(data_coproprietaires)[i] : i \in 1..Len(data_coproprietaires)}

\* C25: after a call of enregistrer_coproprietaires that returns, for every
\* input list, the empty one included, coproprietaires holds exactly the rows
\* given and nothing else.
C25_AnnuaireExact ==
    [][(/\ dernier' # dernier
        /\ dernier'.op = "enregistrer_coproprietaires"
        /\ dernier'.issue = "return")
       => coproprietaires' = LignesDonnees(dernier'.entree)]_vars

\* C26: enregistrer_coproprietaires is atomic.  The committed directory, the
\* one a reader sees, changes only in the step that commits, and then to the
\* complete set of rows given; a call that fails, on an element that is not a
\* dict before the connection is opened or on an INSERT that violates the
\* primary key (or a process that stops before the commit), leaves it as it
\* was before the call.
C26_AnnuaireAtomique ==
    [][/\ coproprietaires' # coproprietaires
          => /\ tx # {}
             /\ tx' = {}
             /\ dernier'.op = "enregistrer_coproprietaires"
             /\ dernier'.issue = "return"
             /\ coproprietaires' = LignesDonnees(dernier'.entree)
       /\ (/\ dernier' # dernier
           /\ dernier'.op = "enregistrer_coproprietaires"
           /\ dernier'.issue # "return")
          => coproprietaires' = coproprietaires]_vars

\* the call given M1 twice raised on the second INSERT, after the DELETE and
\* the first INSERT had run inside the transaction; the directory written
\* before (M1 unclassified, M2 in a 4P) is still what a reader sees
C26_Temoin ==
    /\ dernier.op = "enregistrer_coproprietaires"
    /\ dernier.issue = "raise"
    /\ dernier.efface
    /\ dernier.ecrites = 1
    /\ Len(dernier.entree) = 2
    /\ tx = {}
    /\ {p.code_proprietaire : p \in coproprietaires} = {"M1", "M2"}
    /\ \E p \in coproprietaires : p.code_proprietaire = "M1" /\ p.type_apt = "NA"

\* the rows of ch with the name and the date of c
Groupe(ch, c) ==
    {d \in ch : d.nom_proprietaire = c.nom_proprietaire /\ d.date = c.date}

\* c ranks first in its group: every other row of the group has an earlier
\* last_check, or the same last_check and a smaller id
Premier(ch, c) ==
    \A d \in Groupe(ch, c) \ {c} :
        \/ d.last_check < c.last_check
        \/ d.last_check = c.last_check /\ d.id < c.id

C29_SuiviSansAlerte ==
    [][(/\ dernier' # dernier
        /\ dernier'.op = "sauvegarder_nombre_alertes"
        /\ alertes = {})
       => /\ dernier'.issue = "return"
          /\ suivi_alertes' = suivi_alertes]_vars

\* the last snapshot was asked for with an empty alert table, after an earlier
\* one had stored a row and the alert had been cleared: that row is still
\* there, alone
C29_Temoin ==
    /\ dernier.op = "sauvegarder_nombre_alertes"
    /\ alertes = {}
    /\ charge # {}
    /\ dernier.avant # {}
    /\ suivi_alertes = dernier.avant
    /\ \E s \in suivi_alertes : s.nombre_alertes = 1

\* C30: after a call of sauvegarder_nombre_alertes while alertes_debit_eleve
\* holds a row or more, suivi_alertes holds one row dated MAX(last_detection)
\* whose nombre_alertes is the number of alert rows, whose total_debit is the
\* sum of their debits, and whose nb_c and debit_c, for c among 2p, 3p, 4p,
\* 5p and na, are the number and the sum of the debits of the alert rows
\* whose type_alerte, lower-cased, is c.
C30_SuiviExact ==
    [][(/\ dernier' # dernier
        /\ dernier'.op = "sauvegarder_nombre_alertes"
        /\ alertes # {})
       => LET d == Max({a.last_detection : a \in alertes})
              lignes == {s \in suivi_alertes' : s.date_releve = d}
          IN /\ Cardinality(lignes) = 1
             /\ \A s \in lignes :
                   /\ s.nombre_alertes = Cardinality(alertes)
                   /\ s.total_debit = SommeDebit(alertes)
                   /\ \A c \in {"2p", "3p", "4p", "5p", "na"} :
                         LET groupe == {a \in alertes : Lower(a.type_alerte) = c}
                         IN /\ s.nb[c] = Cardinality(groupe)
                            /\ s.debit[c] = SommeDebit(groupe)]_vars

\* the snapshot taken with two alerts, one of an unclassified member and one
\* of a 4p: 2 alerts and 6000 in all, 1 alert and 3000 under na and under 4p,
\* nothing under the other categories
C30_Temoin ==
    /\ dernier.op = "sauvegarder_nombre_alertes"
    /\ Cardinality(alertes) = 2
    /\ \E s \in suivi_alertes :
          /\ s.nombre_alertes = 2
          /\ s.total_debit = 6000
          /\ s.nb["na"] = 1
          /\ s.debit["na"] = 3000
          /\ s.nb["4p"] = 1
          /\ s.debit["4p"] = 3000
          /\ s.nb["3p"] = 0
          /\ s.debit["2p"] = 0


\* C31: after a call of sauvegarder_nombre_alertes while alertes_debit_eleve
\* holds a row or more, suivi_alertes holds exactly one row dated the day of
\* the call, and that row holds the count and the total of the alert table
\* the call read.
C31_SuiviDuJour ==
    [][(/\ dernier' # dernier
        /\ dernier'.op = "sauvegarder_nombre_alertes"
        /\ alertes # {})
       => LET lignes == {s \in suivi_alertes' : s.date_releve = today}
          IN /\ Cardinality(lignes) = 1
             /\ \A s \in lignes :
                   /\ s.nombre_alertes = Cardinality(alertes)
                   /\ s.total_debit = SommeDebit(alertes)]_vars

\* C32: a call of sauvegarder_nombre_alertes changes and removes no row of
\* suivi_alertes dated before the day of the call.
C32_SuiviAnterieurIntact ==
    [][(/\ dernier' # dernier
        /\ dernier'.op = "sauvegarder_nombre_alertes")
       => \A s \in suivi_alertes :
             s.date_releve < today => s \in suivi_alertes']_vars

\* C33: in every row of suivi_alertes the five per-category counts add up to
\* nombre_alertes and the five per-category amounts add up to total_debit.
C33_SommeDesCategories ==
    \A s \in suivi_alertes :
        /\ s.nb["2p"] + s.nb["3p"] + s.nb["4p"] + s.nb["5p"] + s.nb["na"]
              = s.nombre_alertes
        /\ s.debit["2p"] + s.debit["3p"] + s.debit["4p"] + s.debit["5p"]
              + s.debit["na"] = s.total_debit

\* C34: when a run of main that went to the database has returned, either
\* the whole batch is applied (every row of data_charges is in the ledger and
\* the directory is the list of data_coproprietaires), or nothing is: ledger,
\* alerts and directory are as they were when the run started.
C34_ToutOuRien ==
    (main.pc = "return" /\ dernier.op = "main" /\ dernier.appels # <<>>)
    => LET rows == SansEntetes(main.data_charges)
           data == TuplesCopro(main.data_coproprietaires)
       IN \/ /\ \A i \in 1..Len(rows) : Liable(rows[i])
             /\ \A i \in 1..Len(rows) :
                   \E c \in charge :
                      /\ c.code_proprietaire = rows[i].code_proprietaire
                      /\ c.date = rows[i].date
                      /\ c.debit = rows[i].debit
             /\ coproprietaires = {data[i] : i \in 1..Len(data)}
          \/ /\ charge = dernier.avant.charge
             /\ alertes = dernier.avant.alertes
             /\ coproprietaires = dernier.avant.coproprietaires

\* C35: the id_origin of every alert row is the id of a ledger row of the
\* alert's member, and that row is the one with the greatest id among the
\* member's rows.
C35_OrigineExistante ==
    \A a \in alertes :
        \E c \in charge :
            /\ c.id = a.id_origin
            /\ c.code_proprietaire = a.code_proprietaire
            /\ c.id = MaxIdDe(charge, a.code_proprietaire)

\* the member's last written row has been deleted and the alert now points
\* to the row written before it
C35_Temoin ==
    /\ dernier.op = "suppression_doublons"
    /\ \E a \in alertes :
          /\ a.code_proprietaire \in dernier.avant
          /\ a.id_origin < seq
          /\ \A c \in charge : c.code_proprietaire = a.code_proprietaire
          /\ \E c \in charge : c.id = a.id_origin

\* C36: once suppression_doublons has deleted the ids analyse_doublons
\* returned, analyse_doublons returns the empty list on the ledger it leaves;
\* and suppression_doublons given an empty list returns and leaves the ledger
\* and the alert table as they were.
C36_DedoublonnageIdempotent ==
    [][(dernier.op = "analyse_doublons" /\ dernier'.op = "suppression_doublons")
       => /\ analyse_doublons(charge') = {}
          /\ dernier.liste_ids = {}
             => /\ dernier'.issue = "return"
                /\ charge' = charge
                /\ alertes' = alertes]_vars

\* a group of three rows lost two of them, and the list returned for what
\* was left, which is empty, has been given to suppression_doublons
C36_Temoin ==
    /\ dernier.op = "suppression_doublons"
    /\ dernier.liste_ids = {}
    /\ seq = 3
    /\ Cardinality(charge) = 1
    /\ alertes # {}

\* the places of the calls of f in the history of the run
Places(appels, f) == {i \in 1..Len(appels) : appels[i].f = f}

\* the run that has just returned wrote to the ledger, and
\* sauvegarder_nombre_alertes was called once in it, after the ledger write
\* and after the directory write
SuiviUneFoisApres ==
    (main'.pc = "return" /\ dernier'.op = "main" /\ seq' # dernier'.avant.seq)
    => LET appels == dernier'.appels
       IN /\ Cardinality(Places(appels, "sauvegarder_nombre_alertes")) = 1
          /\ \A i \in Places(appels, "sauvegarder_nombre_alertes") :
                /\ \E j \in Places(appels, "enregistrer_donnees_sqlite") : j < i
                /\ \E j \in Places(appels, "enregistrer_coproprietaires") : j < i

\* this step is the ledger write of a run of main, and it writes a row or more
EcritureDeMain == main.pc = "enregistrer_donnees_sqlite" /\ seq' # seq

\* C37: when a run of main writes to the ledger, the BACKUP directory holds
\* a file made by this run that is the copy of the database as it is before
\* the write; and the run calls sauvegarder_nombre_alertes
\* once, after its ledger write and its directory write.
C37_SauvegardeFaite ==
    [][/\ EcritureDeMain
          => \E b \in backup \ dernier.sauvegardes : b.fichier = Fichier
       /\ SuiviUneFoisApres]_vars

\* the values enregistrer_donnees_sqlite binds from a ledger row
Valeurs(c) ==
    [code_proprietaire |-> c.code_proprietaire,
     nom_proprietaire |-> c.nom_proprietaire,
     debit |-> c.debit, credit |-> c.credit, date |-> c.date]

\* C38: when enregistrer_donnees_sqlite returns, the rows it has written are
\* the elements of its list from index 3 onward, one row each, and none
\* comes from the first three elements; given a list of three elements or
\* fewer it writes no row and leaves the ledger and the alert table as they
\* were.
C38_TroisEntetes ==
    [][(/\ main.pc = "enregistrer_donnees_sqlite"
        /\ main'.pc = "enregistrer_coproprietaires")
       => LET data == main.data_charges
              ecrites == {c \in charge' : c.id > seq}
          IN /\ {Valeurs(c) : c \in ecrites} = {data[i] : i \in 4..Len(data)}
             /\ Cardinality(ecrites) = Cardinality(4..Len(data))
             /\ Len(data) <= 3
                => /\ charge' = charge
                   /\ seq' = seq
                   /\ alertes' = alertes]_vars

\* a list of four rows and no header has been written: the ledger holds the
\* fourth alone, and the alert it raised
C38_Temoin ==
    /\ main.pc = "enregistrer_coproprietaires"
    /\ Len(main.data_charges) = 4
    /\ main.data_charges[1] = Ligne("M2", 3000, 1)
    /\ seq = 1
    /\ \A c \in charge : Valeurs(c) = Ligne("M1", 3000, 2)
    /\ Alertes(alertes) = {"M1"}

\* this step is a call of update_config_alerte or of
\* init_config_alerte_if_missing, or a write of the directory
EcritConfigOuAnnuaire ==
    \/ /\ dernier' # dernier
       /\ dernier'.op \in {"update_config_alerte", "init_config_alerte_if_missing"}
    \/ coproprietaires' # coproprietaires

\* C39: update_config_alerte, init_config_alerte_if_missing and
\* enregistrer_coproprietaires leave the ledger and the alert table as they
\* were: an alert raised under the former threshold or the former type_apt
\* stays as it is, until a write or a delete in the ledger.
C39_AlertesIntactes ==
    [][EcritConfigOuAnnuaire
       => /\ charge' = charge
          /\ seq' = seq
          /\ alertes' = alertes]_vars

\* M1's alert was raised at 3000 before the directory knew M1; the directory
\* now has M1 in a 4P and the threshold of the 4p has been set to 3500: the
\* alert is still there, with type_alerte na
C39_Temoin ==
    /\ dernier.op = "update_config_alerte"
    /\ dernier.retour
    /\ \E p \in coproprietaires : p.code_proprietaire = "M1" /\ p.type_apt = "4P"
    /\ SeuilResolu(coproprietaires, config_alerte, "M1") = 3500
    /\ \E a \in alertes :
          /\ a.code_proprietaire = "M1"
          /\ a.debit = 3000
          /\ a.type_alerte = "na"

\* the (code_proprietaire, date) pairs the ledger ch holds a row for
Observations(ch) == {<<c.code_proprietaire, c.date>> : c \in ch}

\* C40: every (code_proprietaire, date) the ledger holds a row for before
\* analyse_doublons and suppression_doublons still has a row after them.
C40_ObservationsGardees ==
    [][(dernier.op = "analyse_doublons" /\ dernier'.op = "suppression_doublons")
       => Observations(charge) \subseteq Observations(charge')]_vars

====
